---- MODULE Spec2Model ----
(***************************************************************************)
(* Salions Matriculas: the CSV ingestion (header dialect csv-parser.js and *)
(* the headerless dialect), the grouping done by DataAnalyzer.analyze and  *)
(* the interval analytics of DataAnalyzer.                                 *)
(*                                                                         *)
(* Text is a sequence of symbols.  A symbol is one character, except that  *)
(* a date literal ("05/01/2024") and a header name ("fecha_inicio") are    *)
(* one symbol each: parseLine treats every character that is no quote,     *)
(* brace or delimiter alike, so a run of such characters scans as one.     *)
(* Time is counted in ticks of twelve hours since 01/01/2024 00:00.        *)
(***************************************************************************)
EXTENDS Integers, Sequences, FiniteSets, TLC

\* ------------------------------------------------------------------ bounds
MaxRows == 3
MaxSubset == 3

\* ------------------------------------------------------- program constants
TEMPORAL_MAX_DAYS == 365
SHORT_PERMIT_DAYS == 7
VERANO_INICIO == 6
VERANO_FIN == 9
ITEMS_PER_PAGE == 20

\* null (and a missing date) of the program
NULL == -1

\* value of new Date('2999-12-31') relative to every date of the model
FAR_FUTURE == 1000000

\* one tick is twelve hours: n days, and the noon of a day
Day(n) == 2 * n
HalfDay == Day(1) \div 2

\* --------------------------------------------------------- text helpers
Min(a, b) == IF a < b THEN a ELSE b
Max(a, b) == IF a > b THEN a ELSE b

\* Math.ceil(a / b) for b > 0 and any integer a (\div rounds down)
CeilDiv(a, b) == -((-a) \div b)

\* Math.round(10 * a / b) for b > 0: the value in tenths, halves rounded up
RoundTenths(a, b) == (20 * a + b) \div (2 * b)

IsSpace(c) == c = " "

RECURSIVE TrimLeft(_)
TrimLeft(s) ==
    IF s = <<>> THEN <<>>
    ELSE IF IsSpace(Head(s)) THEN TrimLeft(Tail(s)) ELSE s

RECURSIVE TrimRight(_)
TrimRight(s) ==
    IF s = <<>> THEN <<>>
    ELSE IF IsSpace(s[Len(s)]) THEN TrimRight(SubSeq(s, 1, Len(s) - 1)) ELSE s

\* String.prototype.trim
Trim(s) == TrimRight(TrimLeft(s))

ToUpperChar(c) ==
    CASE c = "a" -> "A" [] c = "b" -> "B" [] c = "c" -> "C" [] c = "n" -> "N"
      [] c = "o" -> "O" [] OTHER -> c

ToLowerChar(c) ==
    CASE c = "A" -> "a" [] c = "B" -> "b" [] c = "C" -> "c" [] c = "N" -> "n"
      [] c = "O" -> "o" [] OTHER -> c

\* String.prototype.toUpperCase / toLowerCase
ToUpperCase(s) == [i \in 1..Len(s) |-> ToUpperChar(s[i])]
ToLowerCase(s) == [i \in 1..Len(s) |-> ToLowerChar(s[i])]

IsDigit(c) == c \in {"0", "1", "2", "3", "4", "5", "6", "7", "8", "9"}
IsUpperChar(c) == c \in {"A", "B", "C", "N", "O"}
IsLowerChar(c) == c \in {"a", "b", "c", "n", "o"}
\* the character classes [A-Z0-9] and \w
IsUpperAlnum(c) == IsUpperChar(c) \/ IsDigit(c)
IsWordChar(c) == IsUpperAlnum(c) \/ IsLowerChar(c)

NotSpace(c) == ~IsSpace(c)
QUOTE == "\""

\* ------------------------------------------------------------ parseLine
\* CSVParser.parseLine of the header dialect: quote characters that toggle
\* the flag are dropped, the delimiter is the comma
RECURSIVE ParseLineHeaderFrom(_, _, _, _, _)
ParseLineHeaderFrom(line, i, current, inQuotes, fields) ==
    IF i > Len(line) THEN Append(fields, Trim(current))
    ELSE LET char == line[i]
             nextIsQuote == i + 1 <= Len(line) /\ line[i + 1] = QUOTE
         IN  IF char = QUOTE
             THEN IF inQuotes /\ nextIsQuote
                  THEN ParseLineHeaderFrom(line, i + 2, Append(current, QUOTE),
                                           inQuotes, fields)
                  ELSE ParseLineHeaderFrom(line, i + 1, current, ~inQuotes, fields)
             ELSE IF char = "," /\ ~inQuotes
             THEN ParseLineHeaderFrom(line, i + 1, <<>>, inQuotes,
                                      Append(fields, Trim(current)))
             ELSE ParseLineHeaderFrom(line, i + 1, Append(current, char),
                                      inQuotes, fields)

ParseLineHeader(line) == ParseLineHeaderFrom(line, 1, <<>>, FALSE, <<>>)

\* CSVParser.parseLine of the headerless dialect: quote characters are kept,
\* braces inside quotes are counted, the delimiter is the semicolon
RECURSIVE ParseLineHeaderlessFrom(_, _, _, _, _, _)
ParseLineHeaderlessFrom(line, i, current, inQuotes, braceCount, fields) ==
    IF i > Len(line) THEN Append(fields, Trim(current))
    ELSE LET char == line[i]
             nextIsQuote == i + 1 <= Len(line) /\ line[i + 1] = QUOTE
         IN  IF char = QUOTE
             THEN IF inQuotes /\ nextIsQuote
                  THEN ParseLineHeaderlessFrom(line, i + 2, Append(current, QUOTE),
                                               inQuotes, braceCount, fields)
                  ELSE ParseLineHeaderlessFrom(line, i + 1, Append(current, char),
                                               ~inQuotes, braceCount, fields)
             ELSE IF char = "{" /\ inQuotes
             THEN ParseLineHeaderlessFrom(line, i + 1, Append(current, char),
                                          inQuotes, braceCount + 1, fields)
             ELSE IF char = "}" /\ inQuotes
             THEN ParseLineHeaderlessFrom(line, i + 1, Append(current, char),
                                          inQuotes, braceCount - 1, fields)
             ELSE IF char = ";" /\ ~inQuotes /\ braceCount = 0
             THEN ParseLineHeaderlessFrom(line, i + 1, <<>>, inQuotes, braceCount,
                                          Append(fields, Trim(current)))
             ELSE ParseLineHeaderlessFrom(line, i + 1, Append(current, char),
                                          inQuotes, braceCount, fields)

ParseLineHeaderless(line) ==
    ParseLineHeaderlessFrom(line, 1, <<>>, FALSE, 0, <<>>)

\* the locals of parseLine(line) before the loop
ScanOf(line) ==
    [line |-> line, i |-> 1, current |-> <<>>, inQuotes |-> FALSE, braceCount |-> 0,
     fields |-> <<>>, returned |-> FALSE]

NextIsQuote(s) == s.i + 1 <= Len(s.line) /\ s.line[s.i + 1] = QUOTE

\* one turn of the loop of parseLine, header dialect, in which a doubled
\* quote inside quotes toggles the flag like any other quote
ScanTurnHeaderNoEscape(s) ==
    LET char == s.line[s.i]
    IN  IF char = QUOTE
        THEN [s EXCEPT !.inQuotes = ~s.inQuotes, !.i = s.i + 1]
        ELSE IF char = "," /\ ~s.inQuotes
        THEN [s EXCEPT !.fields = Append(s.fields, Trim(s.current)),
                       !.current = <<>>, !.i = s.i + 1]
        ELSE [s EXCEPT !.current = Append(s.current, char), !.i = s.i + 1]

\* one turn of the loop of parseLine, header dialect
ScanTurnHeader(s) ==
    LET char == s.line[s.i]
    IN  IF char = QUOTE
        THEN IF s.inQuotes /\ NextIsQuote(s)
             THEN [s EXCEPT !.current = Append(s.current, QUOTE), !.i = s.i + 2]
             ELSE [s EXCEPT !.inQuotes = ~s.inQuotes, !.i = s.i + 1]
        ELSE IF char = "," /\ ~s.inQuotes
        THEN [s EXCEPT !.fields = Append(s.fields, Trim(s.current)),
                       !.current = <<>>, !.i = s.i + 1]
        ELSE [s EXCEPT !.current = Append(s.current, char), !.i = s.i + 1]

\* one turn of the loop of parseLine, headerless dialect
ScanTurnHeaderless(s) ==
    LET char == s.line[s.i]
    IN  IF char = QUOTE
        THEN IF s.inQuotes /\ NextIsQuote(s)
             THEN [s EXCEPT !.current = Append(s.current, QUOTE), !.i = s.i + 2]
             ELSE [s EXCEPT !.inQuotes = ~s.inQuotes,
                            !.current = Append(s.current, char), !.i = s.i + 1]
        ELSE IF char = "{" /\ s.inQuotes
        THEN [s EXCEPT !.braceCount = s.braceCount + 1,
                       !.current = Append(s.current, char), !.i = s.i + 1]
        ELSE IF char = "}" /\ s.inQuotes
        THEN [s EXCEPT !.braceCount = s.braceCount - 1,
                       !.current = Append(s.current, char), !.i = s.i + 1]
        ELSE IF char = ";" /\ ~s.inQuotes /\ s.braceCount = 0
        THEN [s EXCEPT !.fields = Append(s.fields, Trim(s.current)),
                       !.current = <<>>, !.i = s.i + 1]
        ELSE [s EXCEPT !.current = Append(s.current, char), !.i = s.i + 1]

\* the last field is pushed and the fields are returned
ScanReturn(s) ==
    [s EXCEPT !.fields = Append(s.fields, Trim(s.current)), !.returned = TRUE]

\* ------------------------------------------------------------ cleanPlate
KeepAlnum(c) == IsUpperAlnum(c)

\* header dialect: trim, upper-case, drop whitespace, keep only [A-Z0-9]
\* cleanPlate of the header dialect without its [^A-Z0-9] filter
CleanPlateKeepingPunctuation(plate) ==
    IF plate = <<>> THEN <<>>
    ELSE SelectSeq(ToUpperCase(Trim(plate)), NotSpace)

CleanPlateHeader(plate) ==
    IF plate = <<>> THEN <<>>
    ELSE SelectSeq(SelectSeq(ToUpperCase(Trim(plate)), NotSpace), KeepAlnum)

\* headerless dialect: trim, upper-case, drop whitespace, keep punctuation
CleanPlateHeaderless(plate) ==
    IF plate = <<>> THEN <<>>
    ELSE SelectSeq(ToUpperCase(Trim(plate)), NotSpace)

\* ------------------------------------------------------- cleanMemberName
RECURSIVE CollapseSpaces(_)
CollapseSpaces(s) ==
    IF Len(s) < 2 THEN s
    ELSE IF IsSpace(s[1]) /\ IsSpace(s[2]) THEN CollapseSpaces(Tail(s))
    ELSE <<Head(s)>> \o CollapseSpaces(Tail(s))

\* replace(/\b\w/g, upper): a word character at the start or after a
\* character that is no word character
Capitalize(s) ==
    [i \in 1..Len(s) |->
        IF IsWordChar(s[i]) /\ (i = 1 \/ ~IsWordChar(s[i - 1]))
        THEN ToUpperChar(s[i]) ELSE s[i]]

CleanMemberName(memberName) ==
    IF memberName = <<>> THEN <<>>
    ELSE Capitalize(ToLowerCase(CollapseSpaces(Trim(memberName))))

\* ------------------------------------------------------------- parseDate
\* The date literals of the model and the local time each one denotes.
\* "31/02/2024" matches DD/MM/YYYY but the rebuilt date is 02/03/2024, so the
\* consistency test rejects it.
DateLiteralValue(sym) ==
    CASE sym = "01/01/2024" -> Day(0)
      [] sym = "05/01/2024" -> Day(4)
      [] sym = "10/01/2024" -> Day(9)
      [] sym = "15/01/2024" -> Day(14)
      [] sym = "2024-07-01" -> Day(182)
      [] sym = "06/07/2024" -> Day(187)
      [] sym = "05/08/2025" -> Day(582)
      [] sym = "31/12/2024" -> Day(365)
      [] sym = "04/02/2025" -> Day(400)
      [] sym = "31/02/2024" -> NULL
      [] OTHER -> NULL

\* literals of the form DD/MM/YYYY HH:MM:SSGMT, read by the headerless
\* dialect only (the components are taken as local time)
GmtLiteralValue(sym) ==
    CASE sym = "10/01/2024 12:00:00GMT" -> Day(9) + HalfDay
      [] sym = "08/01/2024 12:00:00GMT" -> Day(7) + HalfDay
      [] sym = "31/12/2024 12:00:00GMT" -> Day(365) + HalfDay
      [] OTHER -> NULL

\* header dialect: the four formats, then new Date(text), which yields an
\* invalid date for every other text of the model
ParseDateHeader(dateStr) ==
    LET cleaned == Trim(dateStr)
    IN  IF cleaned = <<>> THEN NULL
        ELSE IF Len(cleaned) = 1 THEN DateLiteralValue(cleaned[1])
        ELSE NULL

\* headerless dialect: the GMT format, then the four backup formats
ParseDateHeaderless(dateStr) ==
    LET cleaned == Trim(dateStr)
    IN  IF cleaned = <<>> THEN NULL
        ELSE IF Len(cleaned) = 1
        THEN IF GmtLiteralValue(cleaned[1]) # NULL
             THEN GmtLiteralValue(cleaned[1])
             ELSE DateLiteralValue(cleaned[1])
        ELSE NULL

\* -------------------------------------------------- determineMatriculaType
DetermineMatriculaType(fechaInicio, fechaFin) ==
    IF fechaFin = NULL THEN "permanente"
    ELSE IF fechaInicio = NULL THEN "temporal"
    ELSE IF fechaFin - fechaInicio <= Day(TEMPORAL_MAX_DAYS)
         THEN "temporal" ELSE "permanente"

\* ------------------------------------------------------- extractSocioInfo
\* end of the run of digits that starts at i
RECURSIVE DigitRunEnd(_, _)
DigitRunEnd(s, i) ==
    IF i + 1 <= Len(s) /\ IsDigit(s[i + 1]) THEN DigitRunEnd(s, i + 1) ELSE i

\* /(\d+)-([^,\[\]]+(?:,[^,\[\]]+)*)/ can match at i; the texts of the model
\* hold no comma and no bracket, so the name runs to the end of the text
PatternAt(s, i) ==
    /\ IsDigit(s[i])
    /\ DigitRunEnd(s, i) + 2 <= Len(s)
    /\ s[DigitRunEnd(s, i) + 1] = "-"

ExtractSocioFromNote(note) ==
    IF note = <<>> THEN <<>>
    ELSE IF \E i \in 1..Len(note) : PatternAt(note, i)
    THEN LET i == CHOOSE k \in 1..Len(note) :
                      PatternAt(note, k) /\ \A m \in 1..(k - 1) : ~PatternAt(note, m)
             j == DigitRunEnd(note, i)
         IN  SubSeq(note, i, j) \o <<"-">> \o Trim(SubSeq(note, j + 2, Len(note)))
    ELSE Trim(note)

\* JSON.parse of the text between the outer quotes: the model knows the one
\* shape {"note":"<text>"}; every other text fails to parse
JsonPrefix == <<"{", QUOTE, "note", QUOTE, ":", QUOTE>>
JsonSuffix == <<QUOTE, "}">>

IsJsonNote(jsonStr) ==
    /\ Len(jsonStr) >= Len(JsonPrefix) + Len(JsonSuffix)
    /\ SubSeq(jsonStr, 1, Len(JsonPrefix)) = JsonPrefix
    /\ SubSeq(jsonStr, Len(jsonStr) - 1, Len(jsonStr)) = JsonSuffix
    /\ \A k \in (Len(JsonPrefix) + 1)..(Len(jsonStr) - 2) : jsonStr[k] # QUOTE

JsonNoteOf(jsonStr) == SubSeq(jsonStr, Len(JsonPrefix) + 1, Len(jsonStr) - 2)

\* the socio of extractSocioInfo(infoField)
ExtractSocioInfo(infoField) ==
    IF infoField = <<>> THEN <<>>
    ELSE IF /\ Len(infoField) >= 2
            /\ infoField[1] = QUOTE
            /\ infoField[Len(infoField)] = QUOTE
            /\ IsJsonNote(SubSeq(infoField, 2, Len(infoField) - 1))
            /\ JsonNoteOf(SubSeq(infoField, 2, Len(infoField) - 1)) # <<>>
    THEN ExtractSocioFromNote(JsonNoteOf(SubSeq(infoField, 2, Len(infoField) - 1)))
    ELSE ExtractSocioFromNote(infoField)

\* ======================================================== DataAnalyzer
\* -------------------------------------------------- interval analytics
\* the filter of the temporary permits without its test of the type
ConFechas(m) == m.fechaInicio # NULL /\ m.fechaFin # NULL

IsTemporalConFechas(m) ==
    m.tipoMatricula = "temporal" /\ m.fechaInicio # NULL /\ m.fechaFin # NULL

\* Math.ceil((m.fechaFin - m.fechaInicio) / (1000 * 60 * 60 * 24))
DiasDe(m) == CeilDiv(m.fechaFin - m.fechaInicio, Day(1))

\* the days of a permit without the minimum of one day
DiasSinMinimo(m) == DiasDe(m)

\* Math.max(1, dias)
DiasMinimos(m) == Max(1, DiasDe(m))

RECURSIVE SumDias(_)
SumDias(temporales) ==
    IF temporales = <<>> THEN 0
    ELSE DiasMinimos(Head(temporales)) + SumDias(Tail(temporales))

\* an average of at least one day, also when no permit qualifies
AveragePermitDaysAtLeastOne(matriculas) ==
    LET temporales == SelectSeq(matriculas, IsTemporalConFechas)
    IN  Max(10, RoundTenths(SumDias(temporales), Max(1, Len(temporales))))

\* calculateAveragePermitDays, in tenths of a day
CalculateAveragePermitDays(matriculas) ==
    LET temporales == SelectSeq(matriculas, IsTemporalConFechas)
    IN  IF Len(temporales) = 0 THEN 0
        ELSE RoundTenths(SumDias(temporales), Len(temporales))

\* countShortPermits' test with the days rounded down
IsShortPermitFloor(m) ==
    IF m.tipoMatricula # "temporal" \/ m.fechaInicio = NULL \/ m.fechaFin = NULL
    THEN FALSE
    ELSE (m.fechaFin - m.fechaInicio) \div Day(1) <= SHORT_PERMIT_DAYS

IsShortPermit(m) ==
    IF m.tipoMatricula # "temporal" \/ m.fechaInicio = NULL \/ m.fechaFin = NULL
    THEN FALSE
    ELSE DiasDe(m) <= SHORT_PERMIT_DAYS

CountShortPermits(matriculas) == Len(SelectSeq(matriculas, IsShortPermit))

\* datesOverlap with one of its two comparisons made non-strict
DatesOverlapHalfClosed(inicio1, fin1, inicio2, fin2) ==
    IF inicio1 = NULL \/ inicio2 = NULL THEN FALSE
    ELSE LET f1 == IF fin1 = NULL THEN FAR_FUTURE ELSE fin1
             f2 == IF fin2 = NULL THEN FAR_FUTURE ELSE fin2
         IN  inicio1 < f2 /\ inicio2 <= f1

DatesOverlap(inicio1, fin1, inicio2, fin2) ==
    IF inicio1 = NULL \/ inicio2 = NULL THEN FALSE
    ELSE LET f1 == IF fin1 = NULL THEN FAR_FUTURE ELSE fin1
             f2 == IF fin2 = NULL THEN FAR_FUTURE ELSE fin2
         IN  inicio1 < f2 /\ inicio2 < f1

CountOverlappingPlates(matriculas) ==
    Cardinality({ij \in (1..Len(matriculas)) \X (1..Len(matriculas)) :
        /\ ij[1] < ij[2]
        /\ matriculas[ij[1]].matricula # matriculas[ij[2]].matricula
        /\ DatesOverlap(matriculas[ij[1]].fechaInicio, matriculas[ij[1]].fechaFin,
                        matriculas[ij[2]].fechaInicio, matriculas[ij[2]].fechaFin)})

\* ------------------------------------------------- findPeakSimultaneous
\* the two events of every temporary permit, in the order they are pushed
RECURSIVE EventosDe(_)
EventosDe(temporales) ==
    IF temporales = <<>> THEN <<>>
    ELSE LET m == Head(temporales)
         IN  << [fecha |-> m.fechaInicio, tipo |-> "inicio", matricula |-> m.matricula],
                [fecha |-> m.fechaFin, tipo |-> "fin", matricula |-> m.matricula] >>
             \o EventosDe(Tail(temporales))

\* e placed after every event of sorted that is not later than e
RECURSIVE InsertEvento(_, _)
InsertEvento(sorted, e) ==
    IF sorted = <<>> THEN <<e>>
    ELSE IF Head(sorted).fecha <= e.fecha
         THEN <<Head(sorted)>> \o InsertEvento(Tail(sorted), e)
         ELSE <<e>> \o sorted

\* eventos.sort((a, b) => a.fecha - b.fecha): Array.prototype.sort is stable,
\* events of equal date keep the order in which they were pushed
RECURSIVE SortEventosFrom(_, _)
SortEventosFrom(eventos, sorted) ==
    IF eventos = <<>> THEN sorted
    ELSE SortEventosFrom(Tail(eventos), InsertEvento(sorted, Head(eventos)))

SortEventos(eventos) == SortEventosFrom(eventos, <<>>)

\* Set.add and Set.delete on the insertion-ordered set matriculasActivas
SetAdd(s, x) == IF \E k \in 1..Len(s) : s[k] = x THEN s ELSE Append(s, x)
SetDelete(s, x) == SelectSeq(s, LAMBDA y : y # x)

SweepInit ==
    [activas |-> 0, maxSimultaneas |-> 0, matriculasActivas |-> <<>>,
     peakDetails |-> [cantidad |-> 0, fecha |-> NULL, matriculas |-> <<>>],
     trace |-> <<>>]

\* one turn of eventos.forEach; trace records activas after every event
SweepStep(st, evento) ==
    IF evento.tipo = "inicio"
    THEN LET activas == st.activas + 1
             set == SetAdd(st.matriculasActivas, evento.matricula)
         IN  IF activas > st.maxSimultaneas
             THEN [activas |-> activas, maxSimultaneas |-> activas,
                   matriculasActivas |-> set,
                   peakDetails |-> [cantidad |-> activas, fecha |-> evento.fecha,
                                    matriculas |-> set],
                   trace |-> Append(st.trace, activas)]
             ELSE [st EXCEPT !.activas = activas, !.matriculasActivas = set,
                             !.trace = Append(st.trace, activas)]
    ELSE [st EXCEPT !.activas = st.activas - 1,
                    !.matriculasActivas = SetDelete(st.matriculasActivas, evento.matricula),
                    !.trace = Append(st.trace, st.activas - 1)]

RECURSIVE SweepFrom(_, _)
SweepFrom(eventos, st) ==
    IF eventos = <<>> THEN st
    ELSE SweepFrom(Tail(eventos), SweepStep(st, Head(eventos)))

PeakSweep(matriculas) ==
    SweepFrom(SortEventos(EventosDe(SelectSeq(matriculas, IsTemporalConFechas))),
              SweepInit)

FindPeakSimultaneous(matriculas) ==
    LET st == PeakSweep(matriculas)
    IN  [count |-> st.maxSimultaneas, details |-> st.peakDetails]

\* ------------------------------------------- calculateSeasonalFrequency
\* the first day of every month of 2024 and 2025, in days since 01/01/2024
MonthStarts ==
    << 0, 31, 60, 91, 121, 152, 182, 213, 244, 274, 305, 335,
       366, 397, 425, 456, 486, 517, 547, 578, 609, 639, 670, 700 >>

\* the months since January 2024 of a date: 12 * (getFullYear() - 2024) + getMonth()
MonthIndex(fecha) ==
    Cardinality({k \in 1..Len(MonthStarts) : Day(MonthStarts[k]) <= fecha}) - 1

\* getMonth() + 1
MesDe(fecha) == (MonthIndex(fecha) % 12) + 1

\* TEMPORADAS.isVerano
IsVerano(mes) == mes >= VERANO_INICIO /\ mes <= VERANO_FIN

\* registrosPorMes after one permit: a permit with a start date gets the
\* bucket of its year and month, created with both counters at 0, and adds
\* one to the counter of the season of its month
AddRegistro(registros, m) ==
    IF m.fechaInicio = NULL THEN registros
    ELSE LET yearMonth == MonthIndex(m.fechaInicio)
             r0 == IF \E k \in 1..Len(registros) : registros[k].yearMonth = yearMonth
                   THEN registros
                   ELSE Append(registros,
                               [yearMonth |-> yearMonth, verano |-> 0, invierno |-> 0])
             k == CHOOSE k \in 1..Len(r0) : r0[k].yearMonth = yearMonth
         IN  IF IsVerano(MesDe(m.fechaInicio))
             THEN [r0 EXCEPT ![k].verano = @ + 1]
             ELSE [r0 EXCEPT ![k].invierno = @ + 1]

\* the values of registrosPorMes, in insertion order, after the forEach
RECURSIVE RegistrosPorMes(_, _)
RegistrosPorMes(matriculas, registros) ==
    IF matriculas = <<>> THEN registros
    ELSE RegistrosPorMes(Tail(matriculas), AddRegistro(registros, Head(matriculas)))

RECURSIVE SumOf(_)
SumOf(counts) == IF counts = <<>> THEN 0 ELSE Head(counts) + SumOf(Tail(counts))

\* an average in which the months without a permit of the season count as 0
PromedioTodosLosMeses(counts) ==
    IF Len(counts) > 0 THEN RoundTenths(SumOf(counts), Len(counts)) ELSE 0

\* the average of the non-zero counters of a season, rounded to tenths
PromedioEstacion(counts) ==
    LET meses == SelectSeq(counts, LAMBDA c : c > 0)
    IN  IF Len(meses) > 0 THEN RoundTenths(SumOf(meses), Len(meses)) ELSE 0

\* calculateSeasonalFrequency, in tenths
CalculateSeasonalFrequency(matriculas) ==
    LET registros == RegistrosPorMes(matriculas, <<>>)
    IN  [verano |-> PromedioEstacion([k \in 1..Len(registros) |-> registros[k].verano]),
         invierno |->
             PromedioEstacion([k \in 1..Len(registros) |-> registros[k].invierno])]

\* calculateSocioAnalytics
CalculateSocioAnalytics(matriculas) ==
    LET peakData == FindPeakSimultaneous(matriculas)
    IN  [diasPromedioPermiso |-> CalculateAveragePermitDays(matriculas),
         frecuenciaEstacional |-> CalculateSeasonalFrequency(matriculas),
         permisosCortos |-> CountShortPermits(matriculas),
         solapamientos |-> CountOverlappingPlates(matriculas),
         picoSimultaneo |-> peakData.count,
         picoDetalle |-> peakData.details]

\* ========================================================== CSVParser
\* ------------------------------------------------------ validateHeaders
\* header.includes(variation) for some variation of the logical field; the
\* header names of the model are one symbol each
NameMatches(sym, field) ==
    CASE field = "matricula" -> sym \in {"matricula", "plate"}
      [] field = "fecha_inicio" -> sym \in {"fecha_inicio", "inicio"}
      [] field = "fecha_fin" -> sym \in {"fecha_fin"}
      [] field = "socio" -> sym \in {"socio", "nombre"}

HeaderMatches(header, field) ==
    \E k \in 1..Len(header) : NameMatches(header[k], field)

\* lowerHeaders.findIndex(...): the first matching column, 0 when there is none
FindIndex(hdrs, field) ==
    IF \E k \in 1..Len(hdrs) : HeaderMatches(hdrs[k], field)
    THEN CHOOSE k \in 1..Len(hdrs) :
             /\ HeaderMatches(hdrs[k], field)
             /\ \A m \in 1..(k - 1) : ~HeaderMatches(hdrs[m], field)
    ELSE 0

NoMapping == [matricula |-> 0, fecha_inicio |-> 0, fecha_fin |-> 0, socio |-> 0]

\* the column mapping validateHeaders builds; it throws when a field is 0
ValidateHeaders(hdrs) ==
    [matricula |-> FindIndex(hdrs, "matricula"),
     fecha_inicio |-> FindIndex(hdrs, "fecha_inicio"),
     fecha_fin |-> FindIndex(hdrs, "fecha_fin"),
     socio |-> FindIndex(hdrs, "socio")]

HeadersValid(cm) ==
    cm.matricula # 0 /\ cm.fecha_inicio # 0 /\ cm.fecha_fin # 0 /\ cm.socio # 0

\* --------------------------------------------------------- createRecord
\* lineData[k] || ''
Field(lineData, k) == IF k >= 1 /\ k <= Len(lineData) THEN lineData[k] ELSE <<>>

Rejected(lineNumber, reason) ==
    [ok |-> FALSE, line |-> lineNumber, error |-> reason]

\* header dialect: the record carries no tipoMatricula
\* createRecord of the header dialect without its test of the required fields
CreateRecordUnvalidated(lineData, lineNumber, cm) ==
    LET record == [matricula |-> CleanPlateHeader(Field(lineData, cm.matricula)),
                   fechaInicio |-> ParseDateHeader(Field(lineData, cm.fecha_inicio)),
                   fechaFin |-> ParseDateHeader(Field(lineData, cm.fecha_fin)),
                   socio |-> CleanMemberName(Field(lineData, cm.socio)),
                   tipoMatricula |-> "undefined",
                   lineNumber |-> lineNumber]
    IN  IF record.fechaInicio = NULL /\ record.fechaFin = NULL
        THEN Rejected(lineNumber, "Al menos una fecha debe ser valida")
        ELSE [ok |-> TRUE, record |-> record]

CreateRecordHeader(lineData, lineNumber, cm) ==
    LET record == [matricula |-> CleanPlateHeader(Field(lineData, cm.matricula)),
                   fechaInicio |-> ParseDateHeader(Field(lineData, cm.fecha_inicio)),
                   fechaFin |-> ParseDateHeader(Field(lineData, cm.fecha_fin)),
                   socio |-> CleanMemberName(Field(lineData, cm.socio)),
                   tipoMatricula |-> "undefined",
                   lineNumber |-> lineNumber]
    IN  IF record.matricula = <<>> \/ record.socio = <<>>
        THEN Rejected(lineNumber, "Matricula o socio vacio")
        ELSE IF record.fechaInicio = NULL /\ record.fechaFin = NULL
        THEN Rejected(lineNumber, "Al menos una fecha debe ser valida")
        ELSE [ok |-> TRUE, record |-> record]

\* headerless dialect: the type is determined from the parsed dates, then a
\* missing start date is replaced by the current time
CreateRecordHeaderless(lineData, lineNumber, now) ==
    LET matricula == CleanPlateHeaderless(Field(lineData, 1))
        infoField == Field(lineData, 2)
        fechaInicio == ParseDateHeaderless(Field(lineData, 3))
        fechaFin == IF Field(lineData, 4) # <<>>
                    THEN ParseDateHeaderless(Field(lineData, 4)) ELSE NULL
        record == [matricula |-> matricula,
                   fechaInicio |-> fechaInicio,
                   fechaFin |-> fechaFin,
                   socio |-> ExtractSocioInfo(infoField),
                   tipoMatricula |-> DetermineMatriculaType(fechaInicio, fechaFin),
                   lineNumber |-> lineNumber]
    IN  IF record.matricula = <<>>
        THEN Rejected(lineNumber, "Matricula vacia")
        ELSE IF record.socio = <<>>
        THEN Rejected(lineNumber, "No se pudo extraer informacion del socio")
        ELSE [ok |-> TRUE,
              record |-> IF record.fechaInicio = NULL
                         THEN [record EXCEPT !.fechaInicio = now] ELSE record]

\* lineData.some(cell => cell.trim())
SomeCell(lineData) == \E k \in 1..Len(lineData) : Trim(lineData[k]) # <<>>

\* the body of the loop of parseCSVText for one line: "record", "error" or
\* "ignored", with the record or the error entry
ProcessLineHeader(line, lineNumber, hdrs, cm) ==
    LET lineData == ParseLineHeader(line)
    IN  IF Len(lineData) = Len(hdrs)
        THEN CreateRecordHeader(lineData, lineNumber, cm)
        ELSE IF SomeCell(lineData)
        THEN Rejected(lineNumber, "Numero incorrecto de columnas")
        ELSE [ok |-> FALSE, line |-> lineNumber, error |-> "ignored"]

ProcessLineHeaderless(line, lineNumber, now) ==
    LET lineData == ParseLineHeaderless(line)
    IN  IF Len(lineData) >= 3
        THEN CreateRecordHeaderless(lineData, lineNumber, now)
        ELSE IF SomeCell(lineData)
        THEN Rejected(lineNumber, "Numero insuficiente de columnas")
        ELSE [ok |-> FALSE, line |-> lineNumber, error |-> "ignored"]

\* ------------------------------------------------- DataAnalyzer.analyze
\* a grouping key that keeps the casing of the member string
SocioKeyCased(record) == Trim(record.socio)

SocioKey(record) == Trim(ToLowerCase(record.socio))

HasGroup(groups, key) == \E k \in 1..Len(groups) : groups[k].key = key

GroupIndex(groups, key) == CHOOSE k \in 1..Len(groups) : groups[k].key = key

NewGroup(record) ==
    [key |-> SocioKey(record), socio |-> record.socio, matriculas |-> <<>>,
     temporales |-> 0, permanentes |-> 0, fechaUltimoRegistro |-> NULL]

\* the group after group.matriculas.push(record) and the updates of its
\* counters and of fechaUltimoRegistro
AddToGroup(group, record) ==
    [group EXCEPT
        !.matriculas = Append(@, record),
        !.temporales = IF record.tipoMatricula = "temporal" THEN @ + 1 ELSE @,
        !.permanentes = IF record.tipoMatricula = "temporal" THEN @ ELSE @ + 1,
        !.fechaUltimoRegistro =
            IF @ = NULL \/ record.fechaInicio > @ THEN record.fechaInicio ELSE @]

EmptyStats ==
    [totalMatriculas |-> 0, totalSocios |-> 0,
     matriculasTemporales |-> 0, matriculasPermanentes |-> 0]

EmptyAnalysis == [groups |-> <<>>, stats |-> EmptyStats, threw |-> FALSE]

\* one turn of the loop over this.data; record.fechaInicio.getFullYear()
\* throws a TypeError when the record has no start date
AnalyzeRecord(an, record) ==
    LET key == SocioKey(record)
        groups0 == IF HasGroup(an.groups, key) THEN an.groups
                   ELSE Append(an.groups, NewGroup(record))
        k == GroupIndex(groups0, key)
        groups1 == [groups0 EXCEPT ![k] = AddToGroup(@, record)]
        stats1 == [an.stats EXCEPT
            !.matriculasTemporales =
                IF record.tipoMatricula = "temporal" THEN @ + 1 ELSE @,
            !.matriculasPermanentes =
                IF record.tipoMatricula = "temporal" THEN @ ELSE @ + 1]
    IN  [groups |-> groups1, stats |-> stats1, threw |-> record.fechaInicio = NULL]

RECURSIVE AnalyzeFrom(_, _)
AnalyzeFrom(records, an) ==
    IF records = <<>> \/ an.threw THEN an
    ELSE AnalyzeFrom(Tail(records), AnalyzeRecord(an, Head(records)))

\* new DataAnalyzer(records): the groups in insertion order and the statistics,
\* or threw when analyze did not complete
Analyze(records) ==
    LET an == AnalyzeFrom(records,
                  [EmptyAnalysis EXCEPT !.stats.totalMatriculas = Len(records)])
    IN  IF an.threw THEN an
        ELSE [an EXCEPT !.stats.totalSocios = Len(an.groups)]

\* --------------------------------------------------- getGroupedBySocio
\* place of v in a list sorted by totalMatriculas, largest first, behind the
\* entries that are not smaller (the sort is stable)
RECURSIVE InsertByTotal(_, _)
InsertByTotal(sorted, v) ==
    IF sorted = <<>> THEN <<v>>
    ELSE IF Head(sorted).totalMatriculas >= v.totalMatriculas
         THEN <<Head(sorted)>> \o InsertByTotal(Tail(sorted), v)
         ELSE <<v>> \o sorted

RECURSIVE SortByTotalFrom(_, _)
SortByTotalFrom(views, sorted) ==
    IF views = <<>> THEN sorted
    ELSE SortByTotalFrom(Tail(views), InsertByTotal(sorted, Head(views)))

GroupView(group) ==
    [socio |-> group.socio,
     matriculas |-> group.matriculas,
     totalMatriculas |-> Len(group.matriculas),
     temporales |-> group.temporales,
     permanentes |-> group.permanentes,
     fechaUltimoRegistro |-> group.fechaUltimoRegistro,
     analytics |-> CalculateSocioAnalytics(group.matriculas)]

GetGroupedBySocio(groups) ==
    SortByTotalFrom([k \in 1..Len(groups) |-> GroupView(groups[k])], <<>>)

\* ------------------------------------------------------------- filters
CountTipo(matriculas, tipo) ==
    Len(SelectSeq(matriculas, LAMBDA m : m.tipoMatricula = tipo))

IsTemporal(m) == m.tipoMatricula = "temporal"

\* the metrics the filters recompute on a filtered permit list; the average
\* is taken over temporalesFiltradas
FilteredAnalytics(matriculas) ==
    LET peakData == FindPeakSimultaneous(matriculas)
    IN  [diasPromedioPermiso |->
             CalculateAveragePermitDays(SelectSeq(matriculas, IsTemporal)),
         frecuenciaEstacional |-> CalculateSeasonalFrequency(matriculas),
         permisosCortos |-> CountShortPermits(matriculas),
         solapamientos |-> CountOverlappingPlates(matriculas),
         picoSimultaneo |-> peakData.count,
         picoDetalle |-> peakData.details]

\* the object the filters of DataAnalyzer return for a group
FilteredView(group, matriculas) ==
    [socio |-> group.socio,
     matriculas |-> matriculas,
     totalMatriculas |-> Len(matriculas),
     temporales |-> CountTipo(matriculas, "temporal"),
     permanentes |-> CountTipo(matriculas, "permanente"),
     fechaUltimoRegistro |-> group.fechaUltimoRegistro,
     analytics |-> FilteredAnalytics(matriculas)]

\* filterSociosByMatriculasInPeriod; fechaLimite is now set back diasAtras days
FilterSociosByMatriculasInPeriod(groups, minMatriculas, diasAtras, now) ==
    LET fechaLimite == now - Day(diasAtras)
        EnPeriodo(m) == m.fechaInicio >= fechaLimite
        Sub(g) == SelectSeq(g.matriculas, EnPeriodo)
        Keep(g) == Len(Sub(g)) # 0 /\ Len(Sub(g)) >= minMatriculas
        kept == SelectSeq(groups, Keep)
    IN  SortByTotalFrom([k \in 1..Len(kept) |-> FilteredView(kept[k], Sub(kept[k]))],
                        <<>>)

\* filterSociosByMatriculaType
FilterSociosByMatriculaType(groups, tipo, diasAtras, now) ==
    LET fechaLimite == IF diasAtras > 0 THEN now - Day(diasAtras) ELSE NULL
        DelTipo(m) ==
            /\ m.tipoMatricula = tipo
            /\ (fechaLimite # NULL => m.fechaInicio >= fechaLimite)
        Sub(g) == SelectSeq(g.matriculas, DelTipo)
        Keep(g) == Len(Sub(g)) # 0
        kept == SelectSeq(groups, Keep)
    IN  SortByTotalFrom([k \in 1..Len(kept) |-> FilteredView(kept[k], Sub(kept[k]))],
                        <<>>)

\* the test of the season filters on a permit
EnTemporada(m, temporada) ==
    IF m.fechaInicio = NULL THEN FALSE
    ELSE IF temporada = "verano" THEN IsVerano(MesDe(m.fechaInicio))
    ELSE IF temporada = "invierno" THEN ~IsVerano(MesDe(m.fechaInicio))
    ELSE FALSE

\* filterSociosBySeason
FilterSociosBySeason(groups, temporada, minMatriculas) ==
    IF temporada = "all"
    THEN SelectSeq(GetGroupedBySocio(groups),
                   LAMBDA v : Len(v.matriculas) >= minMatriculas)
    ELSE LET Sub(g) == SelectSeq(g.matriculas, LAMBDA m : EnTemporada(m, temporada))
             Keep(g) == ~(Len(Sub(g)) < minMatriculas)
             kept == SelectSeq(groups, Keep)
         IN  SortByTotalFrom(
                 [k \in 1..Len(kept) |-> FilteredView(kept[k], Sub(kept[k]))], <<>>)

\* the number of months with a permit, not the permits per such month
CalculateMonthCount(matriculas) ==
    LET conFecha == {k \in 1..Len(matriculas) : matriculas[k].fechaInicio # NULL}
        meses == {MonthIndex(matriculas[k].fechaInicio) : k \in conFecha}
    IN  RoundTenths(Cardinality(meses), 1)

\* SalionsApp.calculateMonthlyFrequency, in tenths
CalculateMonthlyFrequency(matriculas) ==
    LET conFecha == {k \in 1..Len(matriculas) : matriculas[k].fechaInicio # NULL}
        meses == {MonthIndex(matriculas[k].fechaInicio) : k \in conFecha}
    IN  IF meses = {} THEN 0
        ELSE RoundTenths(Cardinality(conFecha), Cardinality(meses))

\* SalionsApp.applySeasonFilterToData: the views of data that keep a permit
\* of the season, in the order of data; ...group keeps the other fields
ApplySeasonFilterToData(data_, season) ==
    LET InSeason(m) ==
            IF m.fechaInicio = NULL THEN FALSE
            ELSE IF season = "verano" THEN IsVerano(MesDe(m.fechaInicio))
            ELSE ~IsVerano(MesDe(m.fechaInicio))
        Sub(v) == SelectSeq(v.matriculas, InSeason)
        Keep(v) == Len(Sub(v)) # 0
        View(v) ==
            [v EXCEPT
                !.matriculas = Sub(v),
                !.totalMatriculas = Len(Sub(v)),
                !.temporales = CountTipo(Sub(v), "temporal"),
                !.permanentes = CountTipo(Sub(v), "permanente"),
                !.analytics =
                    [FilteredAnalytics(Sub(v)) EXCEPT
                        !.frecuenciaEstacional =
                            [verano |-> IF season = "verano"
                                        THEN CalculateMonthlyFrequency(Sub(v)) ELSE 0,
                             invierno |-> IF season = "invierno"
                                          THEN CalculateMonthlyFrequency(Sub(v)) ELSE 0]]]
        kept == SelectSeq(data_, Keep)
    IN  [k \in 1..Len(kept) |-> View(kept[k])]

\* ------------------------------------------------- applyCurrentFilters
\* getCurrentFilters: the values of the filter widgets as applyCurrentFilters
\* uses them; platesThreshold 0 stands for a value parseInt reads as 0 or NaN.
\* dateRangeDays is left out: it is set only together with dateFrom, and is
\* then never looked at
GetCurrentFilters(w) ==
    [nameSearch |-> Trim(ToLowerCase(w.nameFilter)),
     minPlates |-> IF w.platesThreshold = 0 THEN 1 ELSE w.platesThreshold,
     dateFrom |-> w.dateFrom,
     dateTo |-> w.dateTo,
     season |-> w.seasonFilter]

\* String.prototype.includes
Includes(s, sub) ==
    \E i \in 0..(Len(s) - Len(sub)) : SubSeq(s, i + 1, i + Len(sub)) = sub

\* the latest start date of a permit list
UltimoRegistro(matriculas) ==
    IF matriculas = <<>> THEN NULL
    ELSE LET fechas == {matriculas[k].fechaInicio : k \in 1..Len(matriculas)}
         IN  CHOOSE f \in fechas : \A g \in fechas : g <= f

\* DataAnalyzer.filterSociosByDateRange: the permits of every member that
\* start within [dateFrom, dateTo] (a missing bound is open), every aggregate
\* recomputed on them, members without such a permit dropped, largest first
FilterSociosByDateRange(groups, minMatriculas, dateFrom, dateTo) ==
    LET EnRango(m) ==
            /\ m.fechaInicio # NULL
            /\ (dateFrom # NULL => m.fechaInicio >= dateFrom)
            /\ (dateTo # NULL => m.fechaInicio <= dateTo)
        Sub(g) == SelectSeq(g.matriculas, EnRango)
        Keep(g) == Len(Sub(g)) # 0 /\ Len(Sub(g)) >= minMatriculas
        kept == SelectSeq(groups, Keep)
    IN  SortByTotalFrom(
            [k \in 1..Len(kept) |->
                [FilteredView(kept[k], Sub(kept[k])) EXCEPT
                    !.fechaUltimoRegistro = UltimoRegistro(Sub(kept[k]))]], <<>>)

\* the list applyCurrentFilters hands to renderTable
ApplyCurrentFilters(groups, filters) ==
    LET conFechas == filters.dateFrom # NULL \/ filters.dateTo # NULL
        base0 == IF conFechas
                 THEN FilterSociosByDateRange(groups, filters.minPlates,
                                              filters.dateFrom, filters.dateTo)
                 ELSE GetGroupedBySocio(groups)
        base1 == IF filters.season = "all" THEN base0
                 ELSE IF conFechas THEN ApplySeasonFilterToData(base0, filters.season)
                 ELSE FilterSociosBySeason(groups, filters.season, filters.minPlates)
        filteredData == SelectSeq(base1,
                            LAMBDA v : Len(v.matriculas) >= filters.minPlates)
    IN  IF filters.nameSearch = <<>> THEN filteredData
        ELSE SelectSeq(filteredData,
                 LAMBDA v : Includes(ToLowerCase(v.socio), filters.nameSearch))

\* ------------------------------------------ UIComponents.sortTableData
\* the comparator of the column totalMatriculas
ComesBefore(a, b, direction) ==
    IF direction = "desc" THEN a.totalMatriculas > b.totalMatriculas
    ELSE a.totalMatriculas < b.totalMatriculas

\* Array.prototype.sort is stable: the place of views[i] in the result is the
\* number of entries the comparator puts before it, plus the earlier entries
\* the comparator leaves tied with it
PlaceInSort(views, i, direction) ==
    Cardinality({j \in 1..Len(views) :
                    \/ ComesBefore(views[j], views[i], direction)
                    \/ /\ j < i
                       /\ ~ComesBefore(views[i], views[j], direction)}) + 1

SortTableData(filteredData, direction) ==
    [p \in 1..Len(filteredData) |->
        filteredData[CHOOSE i \in 1..Len(filteredData) :
                        PlaceInSort(filteredData, i, direction) = p]]

\* ------------------------------------------------------- setDateRange
StartOfDay(fecha) == fecha - (fecha % Day(1))

\* getMinDateFromData
MinDateFromData(records, now) ==
    LET antes == {records[k].fechaInicio : k \in
                     {i \in 1..Len(records) :
                         records[i].fechaInicio # NULL /\ records[i].fechaInicio < now}}
    IN  IF antes = {} THEN now ELSE CHOOSE f \in antes : \A g \in antes : f <= g

\* setDateRange('all'): the date widgets hold the day of the earliest start
\* date and today (the page is taken to run in UTC)
SetDateRangeAll(w, records, now) ==
    [w EXCEPT !.dateFrom = StartOfDay(MinDateFromData(records, now)),
              !.dateTo = StartOfDay(now)]

\* ================================================ DataAnalyzer (old)
\* calculateDuration, in whole days
CalculateDuration(startDate, endDate) ==
    IF startDate = NULL \/ endDate = NULL THEN NULL
    ELSE CeilDiv(endDate - startDate, Day(1))

\* processData: the records with their duration (isActive and season are
\* not read by findSuspiciousMembers)
ProcessData(rawData) ==
    [k \in 1..Len(rawData) |->
        [matricula |-> rawData[k].matricula,
         socio |-> rawData[k].socio,
         fechaInicio |-> rawData[k].fechaInicio,
         fechaFin |-> rawData[k].fechaFin,
         duration |-> CalculateDuration(rawData[k].fechaInicio, rawData[k].fechaFin)]]

\* groupByMember: one group per value of socio, in the order in which the
\* values first occur, with the records of the value in their order
GroupByMember(processedData) ==
    LET first == SelectSeq([k \in 1..Len(processedData) |-> k],
                     LAMBDA k : \A j \in 1..(k - 1) :
                                   processedData[j].socio # processedData[k].socio)
    IN  [g \in 1..Len(first) |->
            LET records == SelectSeq(processedData,
                               LAMBDA r : r.socio = processedData[first[g]].socio)
            IN  [memberName |-> processedData[first[g]].socio,
                 plates |-> {records[k].matricula : k \in 1..Len(records)},
                 records |-> records]]

\* loadData
LoadData(csvData) == GroupByMember(ProcessData(csvData))

PeriodsOverlap(period1, period2) ==
    IF period1.fechaInicio = NULL \/ period1.fechaFin = NULL
       \/ period2.fechaInicio = NULL \/ period2.fechaFin = NULL
    THEN FALSE
    ELSE period1.fechaInicio <= period2.fechaFin
         /\ period2.fechaInicio <= period1.fechaFin

\* findOverlappingPeriods: the pairs i < j of one plate that overlap
FindOverlappingPeriods(records) ==
    {ij \in (1..Len(records)) \X (1..Len(records)) :
        /\ ij[1] < ij[2]
        /\ records[ij[1]].matricula = records[ij[2]].matricula
        /\ PeriodsOverlap(records[ij[1]], records[ij[2]])}

\* the issues findSuspiciousMembers collects for a group, in its order
IssuesOf(group, c) ==
    LET shortPeriods == SelectSeq(group.records,
            LAMBDA r : r.duration # NULL /\ r.duration # 0
                       /\ r.duration <= c.shortDuration)
    IN  (IF Cardinality(group.plates) >= c.minPlates THEN <<"plates">> ELSE <<>>)
        \o (IF Len(shortPeriods) >= 3 THEN <<"short">> ELSE <<>>)
        \o (IF c.overlappingPeriods /\ FindOverlappingPeriods(group.records) # {}
            THEN <<"overlaps">> ELSE <<>>)

\* a severity without the cap on the plates
CalculateSeverityUncapped(issuesCount, platesCount) ==
    issuesCount * 10 + platesCount

\* calculateSeverity
CalculateSeverity(issuesCount, platesCount) ==
    issuesCount * 10 + Min(platesCount, 50)

\* place of s in a list sorted by severity, largest first (the sort is stable)
RECURSIVE InsertBySeverity(_, _)
InsertBySeverity(sorted, s) ==
    IF sorted = <<>> THEN <<s>>
    ELSE IF Head(sorted).severity >= s.severity
         THEN <<Head(sorted)>> \o InsertBySeverity(Tail(sorted), s)
         ELSE <<s>> \o sorted

RECURSIVE SortBySeverityFrom(_, _)
SortBySeverityFrom(list, sorted) ==
    IF list = <<>> THEN sorted
    ELSE SortBySeverityFrom(Tail(list), InsertBySeverity(sorted, Head(list)))

\* findSuspiciousMembers(criteria)
FindSuspiciousMembers(groups, c) ==
    LET flagged == SelectSeq(groups, LAMBDA g : Len(IssuesOf(g, c)) > 0)
    IN  SortBySeverityFrom(
            [k \in 1..Len(flagged) |->
                [member |-> flagged[k].memberName,
                 platesCount |-> Cardinality(flagged[k].plates),
                 issues |-> IssuesOf(flagged[k], c),
                 severity |-> CalculateSeverity(Len(IssuesOf(flagged[k], c)),
                                                Cardinality(flagged[k].plates)),
                 records |-> flagged[k].records]], <<>>)

\* ============================================================== inputs
RECURSIVE Join(_, _)
Join(fields, delim) ==
    IF fields = <<>> THEN <<>>
    ELSE IF Len(fields) = 1 THEN fields[1]
    ELSE fields[1] \o <<delim>> \o Join(Tail(fields), delim)

Dialects == {"header", "headerless"}

\* the values new Date() takes while a file is parsed
NowValues == {Day(20)}

\* texts of the plate column
P_ABC123 == <<"A", "B", "C", "1", "2", "3">>
P_ab12 == <<"a", "b", " ", "1", "2">>
P_B2 == <<"B", "-", "2">>
P_DASH == <<"-">>
P_QB2 == <<QUOTE, "B", ",", "2", QUOTE>>

\* texts of the member column (header dialect) and of the annotation column
M_ana == <<"a", "n", "a">>
M_ANA == <<"A", "N", "A", " ", " ", "b", "o">>
M_bo == <<"b", "o">>
I_7ana == <<"7", "-", "a", "n", "a">>
I_7ANA == <<"7", "-", "A", "N", "A">>
I_3bo == <<"n", "o", " ", "3", "-", "b", "o">>
I_JSON == <<QUOTE, "{", QUOTE, QUOTE, "note", QUOTE, QUOTE, ":", QUOTE, QUOTE,
            "7", "-", "a", "n", "a", QUOTE, QUOTE, "}", QUOTE>>

EMPTY == <<>>
D(sym) == <<sym>>

\* header rows of the header dialect
HeaderStd == <<"matricula", ",", "fecha_inicio", ",", "fecha_fin", ",", "socio">>
HeaderAlt == <<"nombre", ",", "plate", ",", " ", "inicio", ",", "fecha_fin">>
HeaderBad == <<"matricula", ",", "fecha_inicio", ",", "fecha_fin", ",", "color">>
HeaderLines == {HeaderStd, HeaderAlt, HeaderBad}

\* logical rows <<plate, start, end, member>> of the header dialect
HeaderRows ==
    { <<P_ABC123, D("01/01/2024"), D("10/01/2024"), M_ana>>,
      <<P_ABC123, D("05/01/2024"), D("15/01/2024"), M_ana>>,
      <<P_ab12, D("10/01/2024"), EMPTY, M_ANA>>,
      <<P_B2, EMPTY, D("15/01/2024"), M_bo>>,
      <<P_QB2, D("01/01/2024"), D("04/02/2025"), M_bo>>,
      <<P_DASH, D("01/01/2024"), D("10/01/2024"), M_ana>>,
      <<P_ABC123, D("01/01/2024"), D("10/01/2024"), EMPTY>>,
      <<P_ABC123, EMPTY, D("31/02/2024"), M_bo>>,
      <<EMPTY, EMPTY, EMPTY, EMPTY>> }

\* the text of a logical row under the column order of a header
RowText(row, cm) ==
    Join([k \in 1..4 |->
            IF k = cm.matricula THEN row[1]
            ELSE IF k = cm.fecha_inicio THEN row[2]
            ELSE IF k = cm.fecha_fin THEN row[3]
            ELSE row[4]], ",")

\* lines with a wrong number of fields: two fields, and two empty fields
ShortHeaderLines == { P_ABC123 \o <<",">> \o D("01/01/2024"), <<",">> }

DataLinesHeader(cm) == {RowText(row, cm) : row \in HeaderRows} \cup ShortHeaderLines

\* lines <<plate, annotation, start, end>> of the headerless dialect
HeaderlessRows ==
    { <<P_ABC123, I_7ana, D("01/01/2024"), D("10/01/2024")>>,
      <<P_ab12, I_7ANA, D("05/01/2024"), D("15/01/2024")>>,
      <<P_B2, I_3bo, D("10/01/2024")>>,
      <<P_ABC123, I_7ana, EMPTY, D("04/02/2025")>>,
      <<P_ab12, I_3bo, D("31/02/2024"), D("04/02/2025")>>,
      <<P_B2, I_3bo, D("2024-07-01"), D("05/08/2025")>>,
      <<P_ab12, I_JSON, D("2024-07-01"), D("06/07/2024")>>,
      <<P_DASH, I_3bo, D("15/01/2024"), D("05/01/2024")>>,
      <<P_ABC123, I_7ana, D("01/01/2024"), D("31/12/2024")>>,
      <<P_ab12, I_3bo, D("01/01/2024"), D("31/12/2024 12:00:00GMT")>>,
      <<EMPTY, I_7ana, D("01/01/2024"), D("10/01/2024")>>,
      <<P_ABC123, EMPTY, D("01/01/2024"), D("10/01/2024")>>,
      <<P_ABC123, I_7ana>>,
      <<EMPTY, EMPTY>>,
      <<EMPTY, EMPTY, EMPTY>> }

DataLinesHeaderless == {Join(row, ";") : row \in HeaderlessRows}

\* the permits whose intervals the analytics are exercised on
\* the rows of the analytics subsets: every interval on one plate, and the
\* intervals that meet or overlap them on a second plate
AnalyticsIntervals ==
    { <<D("01/01/2024"), D("10/01/2024")>>,
      <<D("05/01/2024"), D("15/01/2024")>>,
      <<D("10/01/2024"), D("15/01/2024")>>,
      <<D("10/01/2024"), D("10/01/2024")>>,
      <<D("15/01/2024"), D("05/01/2024")>>,
      <<D("01/01/2024"), D("08/01/2024 12:00:00GMT")>>,
      <<D("01/01/2024"), D("04/02/2025")>>,
      <<D("01/01/2024"), EMPTY>>,
      <<EMPTY, D("04/02/2025")>> }

AnalyticsIntervalsOther ==
    { <<D("01/01/2024"), D("10/01/2024")>>,
      <<D("05/01/2024"), D("15/01/2024")>>,
      <<D("10/01/2024"), D("15/01/2024")>>,
      <<D("01/01/2024"), EMPTY>>,
      <<D("2024-07-01"), D("06/07/2024")>>,
      <<D("06/07/2024"), EMPTY>>,
      <<D("05/08/2025"), EMPTY>> }

AnalyticsRows ==
    {<<P_ABC123, iv[1], iv[2]>> : iv \in AnalyticsIntervals}
    \cup {<<P_ab12, iv[1], iv[2]>> : iv \in AnalyticsIntervalsOther}

AnalyticsIntervalsHeader ==
    { <<D("01/01/2024"), D("10/01/2024")>>,
      <<D("05/01/2024"), D("15/01/2024")>>,
      <<D("10/01/2024"), EMPTY>>,
      <<EMPTY, D("10/01/2024")>> }

BoundedSeq(S, n) == UNION {[1..k -> S] : k \in 0..n}

StdMapping == ValidateHeaders(ParseLineHeader(HeaderStd))

\* the records createRecord builds from the analytics rows of a dialect
PermitDomain(d) ==
    IF d = "header"
    THEN { CreateRecordHeader(<<p, iv[1], iv[2], M_ana>>, 1, StdMapping).record :
              p \in {P_ABC123, P_ab12}, iv \in AnalyticsIntervalsHeader }
    ELSE { CreateRecordHeaderless(<<r[1], I_7ana, r[2], r[3]>>, 1, now).record :
              r \in AnalyticsRows, now \in NowValues }

\* ======================================================= state machine
VARIABLES
    dialect,        \* which CSVParser the page loads
    pc,             \* position of the ingestion of the current file
    lines,          \* the non-blank lines of the file read so far
    headers,        \* CSVParser.headers
    columnMapping,  \* CSVParser.columnMapping
    data,           \* CSVParser.data
    errors,         \* CSVParser.errors
    groupedData,    \* SalionsApp.dataAnalyzer.groupedData, in insertion order
    stats,          \* SalionsApp.dataAnalyzer.stats
    currentData,    \* SalionsApp.currentData
    baseData,       \* the list getGroupedBySocio returns to applyCurrentFilters
    subset,         \* a permit subset handed to the analytics functions
    metrics,        \* what calculateSocioAnalytics returned for subset
    widgets,        \* the values of the filter widgets of the page
    handed,         \* the list applyCurrentFilters handed to renderTable
    shown,          \* UIComponents.filteredData, sorted in place
    currentSort,    \* UIComponents.currentSort.direction (column totalMatriculas)
    memberGroups,   \* memberGroups of the old DataAnalyzer, in insertion order
    criteria,       \* the criteria of the last findSuspiciousMembers
    suspicious,     \* what the last findSuspiciousMembers returned
    scan,           \* the locals of a running parseLine
    currentPage,    \* UIComponents.currentPage
    itemsPerPage,   \* UIComponents.itemsPerPage
    afterPrint      \* the afterprint listeners of printResults not yet run

vars == <<dialect, pc, lines, headers, columnMapping, data, errors,
          groupedData, stats, currentData, baseData, subset, metrics,
          widgets, handed, shown, currentSort, memberGroups, criteria,
          suspicious, scan, currentPage, itemsPerPage, afterPrint>>

parserVars == <<lines, headers, columnMapping, data, errors>>
appVars == <<groupedData, stats, currentData, baseData>>
analyticsVars == <<subset, metrics>>
filterVars == <<widgets, handed, shown, currentSort, currentPage, itemsPerPage,
                afterPrint>>
oldVars == <<memberGroups, criteria, suspicious, scan>>

\* the filter widgets before the user touches them
EmptyWidgets ==
    [nameFilter |-> <<>>, platesThreshold |-> 0, dateFrom |-> NULL,
     dateTo |-> NULL, seasonFilter |-> "all"]

\* new UIComponents(): nothing rendered, sorted by totalMatriculas descending
NoTable ==
    /\ widgets = EmptyWidgets
    /\ handed = <<>>
    /\ shown = <<>>
    /\ currentSort = "desc"
    /\ currentPage = 1
    /\ itemsPerPage = ITEMS_PER_PAGE
    /\ afterPrint = <<>>

\* new DataAnalyzer() of the old analyzer
\* no parseLine is running
NoScan == NULL

NoSuspects ==
    /\ memberGroups = <<>>
    /\ criteria = [minPlates |-> 10, shortDuration |-> 30, overlappingPeriods |-> TRUE]
    /\ suspicious = <<>>

NoMetrics == CalculateSocioAnalytics(<<>>)

\* the page after new SalionsApp(): an empty parser, new DataAnalyzer() and
\* no current data
Init ==
    /\ dialect \in Dialects
    /\ pc = "idle"
    /\ lines = <<>>
    /\ headers = <<>>
    /\ columnMapping = NoMapping
    /\ data = <<>>
    /\ errors = <<>>
    /\ groupedData = <<>>
    /\ stats = EmptyStats
    /\ currentData = NULL
    /\ baseData = <<>>
    /\ subset = <<>>
    /\ metrics = NoMetrics
    /\ NoTable
    /\ NoSuspects
    /\ scan = NoScan

\* parseCSVText up to the loop: the lists are reset; a file without a
\* non-blank line is fatal
StartParseEmpty ==
    /\ pc = "idle"
    /\ pc' = "fatal"
    /\ lines' = <<>>
    /\ headers' = <<>>
    /\ data' = <<>>
    /\ errors' = <<>>
    /\ UNCHANGED <<dialect, columnMapping, appVars, analyticsVars, filterVars, oldVars>>

\* header dialect: the first line is parsed as the header row and validated
StartParseHeader ==
    /\ pc = "idle"
    /\ dialect = "header"
    /\ \E hdr \in HeaderLines :
          LET hdrs == ParseLineHeader(hdr)
              cm == ValidateHeaders(hdrs)
          IN  /\ lines' = <<hdr>>
              /\ headers' = hdrs
              /\ columnMapping' = cm
              /\ pc' = IF HeadersValid(cm) THEN "parsing" ELSE "fatal"
    /\ data' = <<>>
    /\ errors' = <<>>
    /\ UNCHANGED <<dialect, appVars, analyticsVars, filterVars, oldVars>>

\* headerless dialect: every line is data
StartParseHeaderless ==
    /\ pc = "idle"
    /\ dialect = "headerless"
    /\ pc' = "parsing"
    /\ lines' = <<>>
    /\ data' = <<>>
    /\ errors' = <<>>
    /\ UNCHANGED <<dialect, headers, columnMapping, appVars, analyticsVars, filterVars, oldVars>>

DataLineCount == IF dialect = "header" THEN Len(lines) - 1 ELSE Len(lines)

\* a loop body that logs the error of a rejected line twice
RouteLoggedTwice(res) ==
    /\ data' = IF res.ok THEN Append(data, res.record) ELSE data
    /\ errors' = IF ~res.ok /\ res.error # "ignored"
                 THEN errors \o <<[line |-> res.line, error |-> res.error],
                                  [line |-> res.line, error |-> res.error]>>
                 ELSE errors

\* the outcome of the loop body is appended to data or to errors, or dropped
Route(res) ==
    /\ data' = IF res.ok THEN Append(data, res.record) ELSE data
    /\ errors' = IF ~res.ok /\ res.error # "ignored"
                 THEN Append(errors, [line |-> res.line, error |-> res.error])
                 ELSE errors

\* one turn of the loop of parseCSVText, header dialect
ParseRowHeader ==
    /\ pc = "parsing"
    /\ dialect = "header"
    /\ DataLineCount < MaxRows
    /\ \E line \in DataLinesHeader(columnMapping) :
          /\ lines' = Append(lines, line)
          /\ Route(ProcessLineHeader(line, Len(lines) + 1, headers, columnMapping))
    /\ UNCHANGED <<dialect, pc, headers, columnMapping, appVars, analyticsVars, filterVars, oldVars>>

\* one turn of the loop of parseCSVText, headerless dialect
ParseRowHeaderless ==
    /\ pc = "parsing"
    /\ dialect = "headerless"
    /\ DataLineCount < MaxRows
    /\ \E line \in DataLinesHeaderless, now \in NowValues :
          /\ lines' = Append(lines, line)
          /\ Route(ProcessLineHeaderless(line, Len(lines) + 1, now))
    /\ UNCHANGED <<dialect, pc, headers, columnMapping, appVars, analyticsVars, filterVars, oldVars>>

\* the end of parseCSVText without the test of this.data.length
FinishParseUnchecked ==
    /\ pc = "parsing"
    /\ (dialect = "headerless" => Len(lines) > 0)
    /\ pc' = "parsed"
    /\ UNCHANGED <<dialect, parserVars, appVars, analyticsVars, filterVars, oldVars>>

\* the end of parseCSVText: no valid record is fatal, else the result is returned
FinishParse ==
    /\ pc = "parsing"
    /\ (dialect = "headerless" => Len(lines) > 0)
    /\ pc' = IF Len(data) = 0 THEN "fatal" ELSE "parsed"
    /\ UNCHANGED <<dialect, parserVars, appVars, analyticsVars, filterVars, oldVars>>

\* applyCurrentFilters followed by renderTable: the list is computed from
\* the groups and the widgets, kept as handed, and sorted in place by the
\* table, which shows its first page; the groups are read only
Render(groups, w) ==
    /\ handed' = ApplyCurrentFilters(groups, GetCurrentFilters(w))
    /\ shown' = SortTableData(handed', currentSort)
    /\ currentPage' = 1
    /\ UNCHANGED <<currentSort, itemsPerPage, afterPrint>>

\* SalionsApp.analyzeData(parseResult.data): a new analyzer replaces the old
\* one unless its constructor throws; then initializeDateFilters sets the
\* date widgets and applyCurrentFilters renders the table
Analysis(records, now) ==
    LET an == Analyze(records)
    IN  IF an.threw
        THEN /\ pc' = "analysisFailed"
             /\ UNCHANGED <<appVars, filterVars>>
        ELSE /\ pc' = "analyzed"
             /\ groupedData' = an.groups
             /\ stats' = an.stats
             /\ currentData' = records
             /\ baseData' = GetGroupedBySocio(an.groups)
             /\ widgets' = SetDateRangeAll(widgets, records, now)
             /\ Render(an.groups, widgets')

\* the call of analyzeData in handleFileSelection, once parseFile has returned
AnalyzeData ==
    /\ pc = "parsed"
    /\ \E now \in NowValues : Analysis(data, now)
    /\ UNCHANGED <<dialect, parserVars, analyticsVars, oldVars>>

Next ==
    \/ StartParseEmpty
    \/ StartParseHeader
    \/ StartParseHeaderless
    \/ ParseRowHeader
    \/ ParseRowHeaderless
    \/ FinishParse
    \/ AnalyzeData

Spec == Init /\ [][Next]_vars

\* ------------------------------------------ the analytics on a subset
InitAnalytics ==
    /\ dialect \in Dialects
    /\ pc = "subset"
    /\ lines = <<>>
    /\ headers = <<>>
    /\ columnMapping = NoMapping
    /\ data = <<>>
    /\ errors = <<>>
    /\ groupedData = <<>>
    /\ stats = EmptyStats
    /\ currentData = NULL
    /\ baseData = <<>>
    /\ subset \in BoundedSeq(PermitDomain(dialect), MaxSubset)
    /\ metrics = NoMetrics
    /\ NoTable
    /\ NoSuspects
    /\ scan = NoScan

\* calculateSocioAnalytics applied to the subset
ComputeAnalytics ==
    /\ pc = "subset"
    /\ pc' = "computed"
    /\ metrics' = CalculateSocioAnalytics(subset)
    /\ UNCHANGED <<dialect, parserVars, appVars, subset, filterVars, oldVars>>

NextAnalytics == ComputeAnalytics

SpecAnalytics == InitAnalytics /\ [][NextAnalytics]_vars

\* ------------------------------------------------ the filters of the page
MaxPermits == 4

\* logical rows <<plate, member, start, end>> of the filtered datasets: a
\* winter permit and a long summer permit of one member, a summer permit of
\* another
FilterRows ==
    { <<P_ABC123, "ana", D("01/01/2024"), D("10/01/2024")>>,
      <<P_ab12, "ana", D("06/07/2024"), D("05/08/2025")>>,
      <<P_ABC123, "bo", D("06/07/2024"), D("31/12/2024")>> }

\* the line of a logical row in the file of a dialect
FilterLine(d, row) ==
    IF d = "header"
    THEN RowText(<<row[1], row[3], row[4], IF row[2] = "ana" THEN M_ana ELSE M_bo>>,
                 StdMapping)
    ELSE Join(<<row[1], IF row[2] = "ana" THEN I_7ana ELSE I_3bo, row[3], row[4]>>, ";")

\* what parseCSVText leaves of a file with the given rows
FileLines(d, rows) ==
    (IF d = "header" THEN <<HeaderStd>> ELSE <<>>)
        \o [k \in 1..Len(rows) |-> FilterLine(d, rows[k])]

FileRecords(d, rows, now) ==
    [k \in 1..Len(rows) |->
        IF d = "header"
        THEN ProcessLineHeader(FilterLine(d, rows[k]), k + 1,
                               ParseLineHeader(HeaderStd), StdMapping).record
        ELSE ProcessLineHeaderless(FilterLine(d, rows[k]), k, now).record]

\* the page of the headerless parser, whose records carry the type the
\* filters count, after parseCSVText returned a file of valid rows
InitFilters ==
    /\ dialect = "headerless"
    /\ pc = "parsed"
    /\ \E rows \in BoundedSeq(FilterRows, MaxPermits), now \in NowValues :
          /\ rows # <<>>
          /\ lines = FileLines(dialect, rows)
          /\ data = FileRecords(dialect, rows, now)
    /\ headers = IF dialect = "header" THEN ParseLineHeader(HeaderStd) ELSE <<>>
    /\ columnMapping = IF dialect = "header" THEN StdMapping ELSE NoMapping
    /\ errors = <<>>
    /\ groupedData = <<>>
    /\ stats = EmptyStats
    /\ currentData = NULL
    /\ baseData = <<>>
    /\ subset = <<>>
    /\ metrics = NoMetrics
    /\ NoTable
    /\ NoSuspects
    /\ scan = NoScan

\* the widgets after the user changed one of them: a search text, a
\* threshold, a season, the first day of the range, or no last day
WidgetChanges(w) ==
    {[w EXCEPT !.nameFilter = n] : n \in {<<>>, <<"A", "n">>}}
    \cup {[w EXCEPT !.platesThreshold = t] : t \in {0, 2}}
    \cup {[w EXCEPT !.seasonFilter = s] : s \in {"all", "verano", "invierno"}}
    \cup {[w EXCEPT !.dateFrom = f] : f \in {NULL, Day(0)}}
    \cup {[w EXCEPT !.dateTo = NULL]}

\* a change event whose season filter removes the other permits from the
\* lists of the groups themselves
ChangeFiltersInPlace ==
    /\ pc = "analyzed"
    /\ \E w \in WidgetChanges(widgets) :
          /\ widgets' = w
          /\ Render(groupedData, w)
          /\ groupedData' =
                 IF w.seasonFilter = "all" THEN groupedData
                 ELSE [k \in 1..Len(groupedData) |->
                         [groupedData[k] EXCEPT !.matriculas =
                             SelectSeq(@, LAMBDA m : EnTemporada(m, w.seasonFilter))]]
    /\ UNCHANGED <<dialect, pc, parserVars, stats, currentData, baseData,
                   analyticsVars, oldVars>>

\* a change event of a filter widget: applyCurrentFilters, which returns at
\* once while there is no current data
ChangeFilters ==
    /\ pc = "analyzed"
    /\ \E w \in WidgetChanges(widgets) :
          /\ widgets' = w
          /\ Render(groupedData, w)
    /\ UNCHANGED <<dialect, pc, parserVars, appVars, analyticsVars, oldVars>>

\* UIComponents.sortTable('totalMatriculas'): the direction is toggled and
\* the list of the table sorted in place
SortTable ==
    /\ pc = "analyzed"
    /\ currentSort' = IF currentSort = "asc" THEN "desc" ELSE "asc"
    /\ shown' = SortTableData(shown, currentSort')
    /\ currentPage' = 1
    /\ UNCHANGED <<dialect, pc, parserVars, appVars, analyticsVars, widgets, handed,
                   itemsPerPage, afterPrint, oldVars>>

NextFilters ==
    \/ AnalyzeData
    \/ ChangeFilters
    \/ SortTable

SpecFilters == InitFilters /\ [][NextFilters]_vars

\* --------------------------------------------- the old analyzer's flags
MaxSuspectRows == 3

\* logical rows <<plate, member, start, end>>: two overlapping permits of a
\* plate, a permit of no length, and a permit of another member
SuspectRows ==
    { <<P_ABC123, "ana", D("01/01/2024"), D("10/01/2024")>>,
      <<P_ABC123, "ana", D("05/01/2024"), D("15/01/2024")>>,
      <<P_ab12, "ana", D("10/01/2024"), D("10/01/2024")>>,
      <<P_ABC123, "bo", D("01/01/2024"), D("08/01/2024 12:00:00GMT")>> }

DigitSymbols == <<"0", "1", "2", "3", "4", "5", "6", "7", "8", "9">>

\* n records of one member, each with a plate of its own and no end date
ManyPlates(n) ==
    [k \in 1..n |->
        [matricula |-> <<DigitSymbols[(k \div 10) + 1], DigitSymbols[(k % 10) + 1]>>,
         socio |-> <<"z", "o", "e">>,
         fechaInicio |-> Day(0),
         fechaFin |-> NULL,
         tipoMatricula |-> "permanente",
         lineNumber |-> k]]

CriteriaValues ==
    [minPlates : {2, 10}, shortDuration : {9, 30}, overlappingPeriods : BOOLEAN]

InitSuspicious ==
    /\ dialect = "headerless"
    /\ pc = "old"
    /\ lines = <<>>
    /\ headers = <<>>
    /\ columnMapping = NoMapping
    /\ data = <<>>
    /\ errors = <<>>
    /\ groupedData = <<>>
    /\ stats = EmptyStats
    /\ currentData = NULL
    /\ baseData = <<>>
    /\ subset = <<>>
    /\ metrics = NoMetrics
    /\ NoTable
    /\ NoSuspects
    /\ scan = NoScan

\* loadData(csvData) with the records of a parsed file
LoadDataOld ==
    /\ pc = "old"
    /\ pc' = "loaded"
    /\ \E rows \in BoundedSeq(SuspectRows, MaxSuspectRows), n \in {0, 50, 51},
          now \in NowValues :
          memberGroups' = LoadData(FileRecords(dialect, rows, now) \o ManyPlates(n))
    /\ UNCHANGED <<dialect, parserVars, appVars, analyticsVars, filterVars,
                   criteria, suspicious, scan>>

\* findSuspiciousMembers(criteria)
FlagMembers ==
    /\ pc \in {"loaded", "flagged"}
    /\ pc' = "flagged"
    /\ \E c \in CriteriaValues :
          /\ criteria' = c
          /\ suspicious' = FindSuspiciousMembers(memberGroups, c)
    /\ UNCHANGED <<dialect, parserVars, appVars, analyticsVars, filterVars,
                   memberGroups, scan>>

NextSuspicious ==
    \/ LoadDataOld
    \/ FlagMembers

SpecSuspicious == InitSuspicious /\ [][NextSuspicious]_vars

\* ------------------------------------------------- one file after another
MaxFileRows == 2

\* logical rows <<plate, member, start, end>> of the files: two valid rows,
\* a row without a start date, and a row without a plate
FileRows ==
    { <<P_ABC123, "ana", D("01/01/2024"), D("10/01/2024")>>,
      <<P_ab12, "bo", D("06/07/2024"), D("31/12/2024")>>,
      <<P_B2, "bo", EMPTY, D("15/01/2024")>>,
      <<EMPTY, "ana", D("01/01/2024"), D("10/01/2024")>> }

\* the non-blank lines of the files the user selects
Files(d) ==
    {FileLines(d, rows) : rows \in BoundedSeq(FileRows, MaxFileRows) \ {<<>>}}
    \cup (IF d = "header" THEN {<<HeaderBad, FilterLine(d, <<P_ABC123, "ana",
                                   D("01/01/2024"), D("10/01/2024")>>)>>}
          ELSE {})

\* parseCSVText on the lines of a file: the outcome of every data line, in
\* order, routed to data or errors; fatal without valid headers or records
ParseCSVText(d, fileLines, now) ==
    LET hdrs == IF d = "header" THEN ParseLineHeader(fileLines[1]) ELSE <<>>
        cm == IF d = "header" THEN ValidateHeaders(hdrs) ELSE NoMapping
        first == IF d = "header" THEN 2 ELSE 1
        results == IF d = "header" /\ ~HeadersValid(cm) THEN <<>>
                   ELSE [k \in 1..(Len(fileLines) - first + 1) |->
                           IF d = "header"
                           THEN ProcessLineHeader(fileLines[k + first - 1],
                                                  k + first - 1, hdrs, cm)
                           ELSE ProcessLineHeaderless(fileLines[k], k, now)]
        accepted == SelectSeq(results, LAMBDA res : res.ok)
        rejected == SelectSeq(results, LAMBDA res : ~res.ok /\ res.error # "ignored")
    IN  [headers |-> hdrs,
         columnMapping |-> cm,
         data |-> [k \in 1..Len(accepted) |-> accepted[k].record],
         errors |-> [k \in 1..Len(rejected) |->
                        [line |-> rejected[k].line, error |-> rejected[k].error]],
         fatal |-> Len(accepted) = 0]

\* a handler that empties the analysed state when the parse throws
IngestFileResets ==
    /\ pc \in {"idle", "analyzed", "analysisFailed", "fatal", "rejected"}
    /\ \E file \in Files(dialect), now \in NowValues :
          \E parsed \in {ParseCSVText(dialect, file, now)} :
              /\ lines' = file
              /\ headers' = parsed.headers
              /\ columnMapping' = parsed.columnMapping
              /\ data' = parsed.data
              /\ errors' = parsed.errors
              /\ IF parsed.fatal
                 THEN /\ pc' = "fatal"
                      /\ groupedData' = <<>>
                      /\ stats' = EmptyStats
                      /\ currentData' = NULL
                      /\ baseData' = <<>>
                      /\ handed' = <<>>
                      /\ shown' = <<>>
                      /\ UNCHANGED <<widgets, currentSort, currentPage, itemsPerPage,
                                     afterPrint>>
                 ELSE Analysis(data', now)
    /\ UNCHANGED <<dialect, analyticsVars, oldVars>>

\* handleFileSelection(file) for a .csv file of at most 10 MB: parseFile,
\* then analyzeData unless the parse threw
IngestFile ==
    /\ pc \in {"idle", "analyzed", "analysisFailed", "fatal", "rejected"}
    /\ \E file \in Files(dialect), now \in NowValues :
          \E parsed \in {ParseCSVText(dialect, file, now)} :
              /\ lines' = file
              /\ headers' = parsed.headers
              /\ columnMapping' = parsed.columnMapping
              /\ data' = parsed.data
              /\ errors' = parsed.errors
              /\ IF parsed.fatal
                 THEN /\ pc' = "fatal"
                      /\ UNCHANGED <<appVars, filterVars>>
                 ELSE Analysis(data', now)
    /\ UNCHANGED <<dialect, analyticsVars, oldVars>>

\* handleFileSelection(file) for a file whose name does not end in .csv or
\* whose size is above 10 MB: a notification, and nothing else
RejectFile ==
    /\ pc \in {"idle", "analyzed", "analysisFailed", "fatal", "rejected"}
    /\ pc' = "rejected"
    /\ UNCHANGED <<dialect, parserVars, appVars, analyticsVars, filterVars, oldVars>>

\* the file ingested first: two permits of a third member
FirstFile(d) ==
    IF d = "header"
    THEN <<HeaderStd, RowText(<<P_QB2, D("01/01/2024"), D("04/02/2025"), M_ANA>>,
                              StdMapping)>>
    ELSE <<Join(<<P_ABC123, I_JSON, D("2024-07-01"), D("06/07/2024")>>, ";")>>

\* the page before any file has been selected, or after the first file has
\* been ingested
InitReingest ==
    \/ Init
    \/ /\ dialect \in Dialects
       /\ pc = "analyzed"
       /\ lines = FirstFile(dialect)
       /\ \E now \in NowValues :
            \E parsed \in {ParseCSVText(dialect, lines, now)} :
                /\ headers = parsed.headers
                /\ columnMapping = parsed.columnMapping
                /\ data = parsed.data
                /\ errors = parsed.errors
                /\ \E an \in {Analyze(data)} :
                       /\ groupedData = an.groups
                       /\ stats = an.stats
                /\ currentData = data
                /\ baseData = GetGroupedBySocio(groupedData)
                /\ widgets = SetDateRangeAll(EmptyWidgets, data, now)
                /\ handed = ApplyCurrentFilters(groupedData, GetCurrentFilters(widgets))
       /\ currentSort = "desc"
       /\ shown = SortTableData(handed, currentSort)
       /\ currentPage = 1
       /\ itemsPerPage = ITEMS_PER_PAGE
       /\ afterPrint = <<>>
       /\ subset = <<>>
       /\ metrics = NoMetrics
       /\ NoSuspects
       /\ scan = NoScan

NextReingest ==
    \/ IngestFile
    \/ RejectFile

SpecReingest == InitReingest /\ [][NextReingest]_vars

\* ------------------------------------------------- parseLine, turn by turn
MaxLineLen == 4

\* the characters of the scanned lines: a quote, the delimiter of the
\* dialect, a letter, and a blank (header) or the braces (headerless)
ScanChars(d) ==
    IF d = "header" THEN {QUOTE, ",", "a", " "} ELSE {QUOTE, ";", "a", "{", "}"}

\* parseLine(line) has been called and is about to enter its loop
InitScan ==
    /\ dialect \in Dialects
    /\ pc = "scan"
    /\ lines = <<>>
    /\ headers = <<>>
    /\ columnMapping = NoMapping
    /\ data = <<>>
    /\ errors = <<>>
    /\ groupedData = <<>>
    /\ stats = EmptyStats
    /\ currentData = NULL
    /\ baseData = <<>>
    /\ subset = <<>>
    /\ metrics = NoMetrics
    /\ NoTable
    /\ NoSuspects
    /\ \E line \in BoundedSeq(ScanChars(dialect), MaxLineLen) : scan = ScanOf(line)

scanRest == <<dialect, pc, parserVars, appVars, analyticsVars, filterVars,
              memberGroups, criteria, suspicious>>

\* while (i < line.length), header dialect
ScanHeader ==
    /\ pc = "scan"
    /\ dialect = "header"
    /\ ~scan.returned
    /\ scan.i <= Len(scan.line)
    /\ scan' = ScanTurnHeader(scan)
    /\ UNCHANGED scanRest

\* while (i < line.length), headerless dialect
ScanHeaderless ==
    /\ pc = "scan"
    /\ dialect = "headerless"
    /\ ~scan.returned
    /\ scan.i <= Len(scan.line)
    /\ scan' = ScanTurnHeaderless(scan)
    /\ UNCHANGED scanRest

\* the loop is left
ScanEnd ==
    /\ pc = "scan"
    /\ ~scan.returned
    /\ scan.i > Len(scan.line)
    /\ scan' = ScanReturn(scan)
    /\ UNCHANGED scanRest

NextScan ==
    \/ ScanHeader
    \/ ScanHeaderless
    \/ ScanEnd

\* parseLine is synchronous: a started scan runs to its return
SpecParseLine == InitScan /\ [][NextScan]_vars /\ WF_vars(NextScan)

\* ------------------------------------------------- the pages of the table
PagedMembers == 21
MaxPrints == 2

TwoDigits(k) == <<DigitSymbols[(k \div 10) + 1], DigitSymbols[(k % 10) + 1]>>

\* the line of plate k of member m, a permit without an end date
PagedLine(k, m) ==
    Join(<<TwoDigits(k), TwoDigits(m) \o <<"-", "a">>, D("01/01/2024")>>, ";")

\* a file with one plate for each of n members and a second plate for the
\* first of them
PagedFile(n) == [k \in 1..n |-> PagedLine(k, k)] \o <<PagedLine(n + 1, 1)>>

\* the page of the headerless parser after parseCSVText returned a file of
\* one member or of more members than a page of the table holds
InitPagination ==
    /\ dialect = "headerless"
    /\ pc = "parsed"
    /\ \E n \in {1, PagedMembers}, now \in NowValues :
          /\ lines = PagedFile(n)
          /\ data = [k \in 1..Len(lines) |->
                        ProcessLineHeaderless(lines[k], k, now).record]
    /\ headers = <<>>
    /\ columnMapping = NoMapping
    /\ errors = <<>>
    /\ groupedData = <<>>
    /\ stats = EmptyStats
    /\ currentData = NULL
    /\ baseData = <<>>
    /\ subset = <<>>
    /\ metrics = NoMetrics
    /\ NoTable
    /\ NoSuspects
    /\ scan = NoScan

pageRest == <<dialect, pc, parserVars, appVars, analyticsVars, widgets, handed, shown,
              currentSort, oldVars>>

\* Math.ceil(this.filteredData.length / this.itemsPerPage)
TotalPages == CeilDiv(Len(shown), itemsPerPage)

\* click on prevPage
PrevPage ==
    /\ currentPage > 1
    /\ currentPage' = currentPage - 1
    /\ UNCHANGED <<itemsPerPage, afterPrint, pageRest>>

\* click on nextPage
NextPage ==
    /\ currentPage < TotalPages
    /\ currentPage' = currentPage + 1
    /\ UNCHANGED <<itemsPerPage, afterPrint, pageRest>>

\* printResults with a table that is not empty: the page and the page size
\* are kept by a new afterprint listener and the whole list is shown as one
\* page
PrintResults ==
    /\ shown # <<>>
    /\ Len(afterPrint) < MaxPrints
    /\ afterPrint' = Append(afterPrint, [originalPage |-> currentPage,
                                         originalItemsPerPage |-> itemsPerPage])
    /\ itemsPerPage' = Len(shown)
    /\ currentPage' = 1
    /\ UNCHANGED pageRest

\* the afterprint event: every listener, in the order of registration,
\* restores what it kept and removes itself
AfterPrint ==
    /\ afterPrint # <<>>
    /\ itemsPerPage' = afterPrint[Len(afterPrint)].originalItemsPerPage
    /\ currentPage' = afterPrint[Len(afterPrint)].originalPage
    /\ afterPrint' = <<>>
    /\ UNCHANGED pageRest

\* a change event of the threshold widget: applyCurrentFilters hands the
\* filtered list to renderTable
ChangeThreshold ==
    /\ pc = "analyzed"
    /\ \E t \in {0, 2} :
          /\ widgets' = [widgets EXCEPT !.platesThreshold = t]
          /\ Render(groupedData, widgets')
    /\ UNCHANGED <<dialect, pc, parserVars, appVars, analyticsVars, oldVars>>

NextPagination ==
    \/ AnalyzeData
    \/ ChangeThreshold
    \/ SortTable
    \/ PrevPage
    \/ NextPage
    \/ PrintResults
    \/ AfterPrint

SpecPagination == InitPagination /\ [][NextPagination]_vars

\* ============================================================== claims
\* a temporary permit with both of its dates
Qualifies(m) ==
    /\ m.tipoMatricula = "temporal"
    /\ m.fechaInicio # NULL
    /\ m.fechaFin # NULL

Count(seq, x) == Cardinality({k \in 1..Len(seq) : seq[k] = x})

SameMultiset(a, b) ==
    /\ Len(a) = Len(b)
    /\ \A k \in 1..Len(a) : Count(a, a[k]) = Count(b, a[k])

RECURSIVE FlattenGroups(_)
FlattenGroups(groups) ==
    IF groups = <<>> THEN <<>>
    ELSE Head(groups).matriculas \o FlattenGroups(Tail(groups))

\* every reordering of a list
Reorderings(seq) ==
    {[k \in 1..Len(seq) |-> seq[p[k]]] : p \in Permutations(1..Len(seq))}

RemoveAt(seq, k) == SubSeq(seq, 1, k - 1) \o SubSeq(seq, k + 1, Len(seq))
InsertAt(seq, k, x) == SubSeq(seq, 1, k - 1) \o <<x>> \o SubSeq(seq, k, Len(seq))

AnalysisRan == pc \in {"analyzed", "analysisFailed"}

\* C1: once analyzeData has been given the valid records of a parse, the
\* permit lists of the analyzer's groups, concatenated, hold exactly the
\* records of that list, each once, and there are as many groups as distinct
\* lower-cased, trimmed member strings.
C1_GroupingRoundTrip ==
    AnalysisRan =>
        /\ SameMultiset(FlattenGroups(groupedData), data)
        /\ Len(groupedData) = Cardinality({SocioKey(data[k]) : k \in 1..Len(data)})

\* C2: countOverlappingPlates gives the same number for every reordering of
\* the subset, and datesOverlap gives the same answer with its two ranges
\* exchanged, whatever dates of the permits are missing.
C2_OverlapSymmetric ==
    pc = "computed" =>
        /\ \A r \in Reorderings(subset) :
              CountOverlappingPlates(r) = metrics.solapamientos
        /\ \A i, j \in 1..Len(subset) :
              DatesOverlap(subset[i].fechaInicio, subset[i].fechaFin,
                           subset[j].fechaInicio, subset[j].fechaFin)
              = DatesOverlap(subset[j].fechaInicio, subset[j].fechaFin,
                             subset[i].fechaInicio, subset[i].fechaFin)

\* C2 witness: three permits, one without start date and one without end
\* date, two of them on different plates overlapping
C2_Witness ==
    /\ pc = "computed"
    /\ Len(subset) = 3
    /\ metrics.solapamientos >= 1
    /\ \E k \in 1..Len(subset) : subset[k].fechaInicio = NULL
    /\ \E k \in 1..Len(subset) : subset[k].fechaFin = NULL

ScenarioA ==
    << HeaderStd,
       RowText(<<P_ABC123, D("01/01/2024"), D("10/01/2024"), M_ana>>, StdMapping),
       RowText(<<P_ABC123, D("05/01/2024"), D("15/01/2024"), M_ana>>, StdMapping) >>

\* C3: the two rows of scenario A, ingested under the header dialect, give
\* one member group with 2 temporary permits, 1 overlap and a peak of 2.
C3_ScenarioA ==
    (pc = "analyzed" /\ dialect = "header" /\ lines = ScenarioA) =>
        /\ Len(baseData) = 1
        /\ baseData[1].totalMatriculas = 2
        /\ baseData[1].temporales = 2
        /\ baseData[1].analytics.solapamientos = 1
        /\ baseData[1].analytics.picoSimultaneo = 2

\* the number of temporary permits with both dates whose closed interval
\* holds the instant t
ActiveAt(matriculas, t) ==
    Cardinality({k \in 1..Len(matriculas) :
        /\ Qualifies(matriculas[k])
        /\ matriculas[k].fechaInicio <= t
        /\ t <= matriculas[k].fechaFin})

\* the largest number of such permits at one instant; the count changes only
\* at a start date, so the start dates are the instants to look at
ReferencePeak(matriculas) ==
    LET counts == {ActiveAt(matriculas, matriculas[k].fechaInicio) :
                      k \in {i \in 1..Len(matriculas) :
                                Qualifies(matriculas[i])}} \cup {0}
    IN  CHOOSE c \in counts : \A d \in counts : d <= c

\* C4: the count findPeakSimultaneous returns is the largest number of
\* temporary permits with both dates whose interval [start, end] holds one
\* same instant.
C4_PeakIsReference ==
    pc = "computed" => metrics.picoSimultaneo = ReferencePeak(subset)

NoPeak == [cantidad |-> 0, fecha |-> NULL, matriculas |-> <<>>]

NotTemporal(d) == {m \in PermitDomain(d) : m.tipoMatricula # "temporal"}

\* C5: a subset without a temporary permit with both dates has peak 0, no
\* date and no plates; and taking a permit that is not temporary out of the
\* subset, or putting one in at any place, leaves the peak count as it is.
C5_PermanentNeverCounts ==
    pc = "computed" =>
        /\ (\A k \in 1..Len(subset) : ~Qualifies(subset[k]))
              => metrics.picoSimultaneo = 0 /\ metrics.picoDetalle = NoPeak
        /\ \A k \in 1..Len(subset) :
              subset[k].tipoMatricula # "temporal"
                 => FindPeakSimultaneous(RemoveAt(subset, k)).count
                    = metrics.picoSimultaneo
        /\ \A k \in 1..(Len(subset) + 1) : \A m \in NotTemporal(dialect) :
              FindPeakSimultaneous(InsertAt(subset, k, m)).count
              = metrics.picoSimultaneo

\* C5 witness: a permanent permit with both dates stands between two
\* temporary permits that are active together
C5_Witness ==
    /\ pc = "computed"
    /\ Len(subset) = 3
    /\ subset[2].tipoMatricula = "permanente"
    /\ subset[2].fechaFin # NULL
    /\ metrics.picoSimultaneo = 2

\* the type the classification rule gives to a record as it stands in data
RuleType(record) ==
    IF record.fechaFin = NULL THEN "permanente"
    ELSE IF record.fechaFin - record.fechaInicio <= Day(TEMPORAL_MAX_DAYS)
         THEN "temporal" ELSE "permanente"

\* C6: every record built by either dialect is permanent when it has no end
\* date, and otherwise temporary exactly when end - start is at most 365
\* days, also when its start date was missing or unparseable.
C6_TypeClassification ==
    \A k \in 1..Len(data) : data[k].tipoMatricula = RuleType(data[k])

\* ceil((end - start) / 1 day) <= n, said without the rounding
AtMostDays(m, n) == m.fechaFin - m.fechaInicio <= Day(n)

\* C7: countShortPermits is the number of permits of the subset that are
\* temporary, have both dates and last at most 7 days (rounded up to whole
\* days); permanent permits and permits missing a date are not counted.
C7_ShortPermits ==
    pc = "computed" =>
        metrics.permisosCortos =
            Cardinality({k \in 1..Len(subset) :
                /\ subset[k].tipoMatricula = "temporal"
                /\ subset[k].fechaInicio # NULL
                /\ subset[k].fechaFin # NULL
                /\ AtMostDays(subset[k], SHORT_PERMIT_DAYS)})

\* C7 witness: a 5-day temporary permit is the one short permit of a subset
\* that also holds a permanent permit and a permit of seven and a half days
C7_Witness ==
    /\ pc = "computed"
    /\ metrics.permisosCortos = 1
    /\ \E k \in 1..Len(subset) :
          /\ subset[k].tipoMatricula = "temporal"
          /\ subset[k].fechaFin - subset[k].fechaInicio = Day(5)
    /\ \E k \in 1..Len(subset) : subset[k].tipoMatricula = "permanente"
    /\ \E k \in 1..Len(subset) :
          /\ subset[k].tipoMatricula = "temporal"
          /\ subset[k].fechaFin - subset[k].fechaInicio = Day(7) + HalfDay

\* whole days of a permit, rounded up
WholeDays(m) ==
    LET diff == m.fechaFin - m.fechaInicio
    IN  IF diff % Day(1) = 0 THEN diff \div Day(1) ELSE (diff \div Day(1)) + 1

RECURSIVE ClampedDaysUpTo(_, _)
ClampedDaysUpTo(matriculas, n) ==
    IF n = 0 THEN 0
    ELSE ClampedDaysUpTo(matriculas, n - 1)
         + (IF Qualifies(matriculas[n])
            THEN Max(1, WholeDays(matriculas[n])) ELSE 0)

\* C8: calculateAveragePermitDays is 0 when no temporary permit of the subset
\* has both dates; otherwise it is the mean of max(1, whole days) over those
\* permits, rounded to one decimal (halves up), and never below 1.
C8_AverageDays ==
    pc = "computed" =>
        LET n == Cardinality({k \in 1..Len(subset) : Qualifies(subset[k])})
            total == ClampedDaysUpTo(subset, Len(subset))
            tenths == metrics.diasPromedioPermiso
        IN  IF n = 0 THEN tenths = 0
            ELSE /\ 2 * n * tenths - n <= 20 * total
                 /\ 20 * total < 2 * n * tenths + n
                 /\ tenths >= 10

\* C8 witness: three qualifying permits, one of them of inverted range, whose
\* mean is no whole number of days
C8_Witness ==
    /\ pc = "computed"
    /\ Len(subset) = 3
    /\ \A k \in 1..3 : Qualifies(subset[k])
    /\ \E k \in 1..3 : subset[k].fechaFin < subset[k].fechaInicio
    /\ metrics.diasPromedioPermiso % 10 # 0

FirstDataLine == IF dialect = "header" THEN 2 ELSE 1

\* the fields of line n and the tests createRecord is to make on them
FieldsOf(n) ==
    IF dialect = "header" THEN ParseLineHeader(lines[n])
    ELSE ParseLineHeaderless(lines[n])

CountOk(n) ==
    IF dialect = "header" THEN Len(FieldsOf(n)) = Len(headers)
    ELSE Len(FieldsOf(n)) >= 3

PlateOf(n) ==
    IF dialect = "header"
    THEN CleanPlateHeader(Field(FieldsOf(n), columnMapping.matricula))
    ELSE CleanPlateHeaderless(Field(FieldsOf(n), 1))

MemberOf(n) ==
    IF dialect = "header"
    THEN CleanMemberName(Field(FieldsOf(n), columnMapping.socio))
    ELSE ExtractSocioInfo(Field(FieldsOf(n), 2))

NoDateOf(n) ==
    /\ dialect = "header"
    /\ ParseDateHeader(Field(FieldsOf(n), columnMapping.fecha_inicio)) = NULL
    /\ ParseDateHeader(Field(FieldsOf(n), columnMapping.fecha_fin)) = NULL

InData(n) == \E k \in 1..Len(data) : data[k].lineNumber = n
InErrors(n) == \E k \in 1..Len(errors) : errors[k].line = n

\* C9: in both dialects every record of data has a non-empty plate and a
\* non-empty member; a row with an empty plate, an empty member or (header
\* dialect) no resolvable date is in the error log and not in data; and no
\* row is in both.
C9_RequiredFields ==
    /\ \A k \in 1..Len(data) : data[k].matricula # <<>> /\ data[k].socio # <<>>
    /\ \A n \in FirstDataLine..Len(lines) :
          /\ ~(InData(n) /\ InErrors(n))
          /\ (CountOk(n) /\ (PlateOf(n) = <<>> \/ MemberOf(n) = <<>> \/ NoDateOf(n)))
                => InErrors(n) /\ ~InData(n)

\* C9 witness: a header-dialect parse with a record, a row rejected for an
\* empty plate or member and a row rejected for its dates
C9_Witness ==
    /\ dialect = "header"
    /\ Len(data) >= 1
    /\ \E n \in FirstDataLine..Len(lines) :
          CountOk(n) /\ PlateOf(n) = <<>> /\ InErrors(n)
    /\ \E n \in FirstDataLine..Len(lines) :
          CountOk(n) /\ PlateOf(n) # <<>> /\ MemberOf(n) # <<>> /\ NoDateOf(n)
             /\ InErrors(n)

\* C10: the plate of every record of data is non-empty and, in the header
\* dialect, made of A-Z and 0-9 only, in the headerless dialect free of
\* whitespace and of lower-case letters; a plate text that is not empty but
\* normalizes to the empty string is rejected.
C10_PlateCharset ==
    /\ \A k \in 1..Len(data) :
          /\ data[k].matricula # <<>>
          /\ \A i \in 1..Len(data[k].matricula) :
                IF dialect = "header" THEN IsUpperAlnum(data[k].matricula[i])
                ELSE ~IsSpace(data[k].matricula[i]) /\ ~IsLowerChar(data[k].matricula[i])
    /\ \A n \in FirstDataLine..Len(lines) :
          (CountOk(n) /\ PlateOf(n) = <<>>) => InErrors(n) /\ ~InData(n)

\* C10 witness: the header dialect has accepted a plate written in lower case
\* with a space and rejected a plate made of punctuation only
C10_Witness ==
    /\ dialect = "header"
    /\ \E k \in 1..Len(data) :
          /\ data[k].matricula = <<"A", "B", "1", "2">>
          /\ Field(FieldsOf(data[k].lineNumber), columnMapping.matricula) = P_ab12
    /\ \E n \in FirstDataLine..Len(lines) :
          /\ Field(FieldsOf(n), columnMapping.matricula) = P_DASH
          /\ InErrors(n) /\ ~InData(n)

RequiredFields == {"matricula", "fecha_inicio", "fecha_fin", "socio"}

\* every required logical column has a header that names it
Resolvable(hdrs) ==
    \A field \in RequiredFields : \E k \in 1..Len(hdrs) : HeaderMatches(hdrs[k], field)

ParseReturned == pc \in {"parsed", "analyzed", "analysisFailed"}

\* C11: parseCSVText has thrown only if the file had no non-blank line, or
\* (header dialect) a required column is not resolved by the header row, or
\* no row gave a valid record; whenever it has returned, none of these is
\* so and the data list is not empty, whatever rows went to the error log.
C11_FatalExactly ==
    LET noLine == lines = <<>>
        noColumn == dialect = "header" /\ ~Resolvable(headers)
        noRecord == Len(data) = 0
    IN  /\ pc = "fatal" => (noLine \/ noColumn \/ noRecord)
        /\ ParseReturned => (~noLine /\ ~noColumn /\ ~noRecord)
        /\ pc = "parsing" => ~noColumn

\* C11 witness: a parse has returned one record although two of its rows
\* went to the error log
C11_Witness ==
    /\ pc = "parsed"
    /\ Len(data) = 1
    /\ Len(errors) = 2

ViewSet(views) == {views[k] : k \in 1..Len(views)}

\* the filters of a season and a threshold, with or without a first day
SeasonFilters(season, minPlates, dateFrom) ==
    [nameSearch |-> <<>>, minPlates |-> minPlates, dateFrom |-> dateFrom,
     dateTo |-> NULL, season |-> season]

\* every start date of the model is on or after this day
FirstDay == Day(0)

Fresh(v) ==
    /\ v.totalMatriculas = Len(v.matriculas)
    /\ v.temporales = Len(SelectSeq(v.matriculas, LAMBDA m : m.tipoMatricula = "temporal"))
    /\ v.permanentes = Len(SelectSeq(v.matriculas, LAMBDA m : m.tipoMatricula = "permanente"))
    /\ v.analytics = CalculateSocioAnalytics(v.matriculas)
    /\ \A k \in 1..Len(v.matriculas) : v.matriculas[k].fechaInicio <= v.fechaUltimoRegistro
    /\ \E k \in 1..Len(v.matriculas) : v.matriculas[k].fechaInicio = v.fechaUltimoRegistro

\* the views the period, type and season filters return for the groups
FilteredViews ==
    UNION { ViewSet(FilterSociosBySeason(groupedData, season, 1)) :
                season \in {"verano", "invierno"} }
    \cup UNION { ViewSet(FilterSociosByMatriculaType(groupedData, tipo, 0, now)) :
                    tipo \in {"temporal", "permanente"}, now \in NowValues }
    \cup UNION { ViewSet(FilterSociosByMatriculasInPeriod(groupedData, 1, 30, now)) :
                    now \in NowValues }
    \cup UNION { ViewSet(ApplySeasonFilterToData(GetGroupedBySocio(groupedData), season)) :
                    season \in {"verano", "invierno"} }

\* C14: in every view a period, type or season filter returns for an
\* analyzed dataset, the total, the temporary and permanent counts, the
\* metrics and the last-registered date are those of the view's own permits
C14_NoStaleAggregate ==
    pc = "analyzed" => \A v \in FilteredViews : Fresh(v)

\* C15: the list handed to the table has no member without a permit, only
\* members with at least minPlates permits whose lower-cased name contains
\* the search text, and never a member ahead of one with more permits
C15_HandedList ==
    pc = "analyzed" =>
        LET filters == GetCurrentFilters(widgets)
        IN  /\ \A k \in 1..Len(handed) :
                   /\ handed[k].matriculas # <<>>
                   /\ Len(handed[k].matriculas) >= filters.minPlates
                   /\ \E i \in 0..Len(handed[k].socio) :
                          SubSeq(ToLowerCase(handed[k].socio), i + 1,
                                 i + Len(filters.nameSearch)) = filters.nameSearch
            /\ \A k \in 1..(Len(handed) - 1) :
                   Len(handed[k].matriculas) >= Len(handed[k + 1].matriculas)

\* the number of issues of a group under the criteria of the last call
IssueCount(g) ==
    LET short == {k \in 1..Len(g.records) :
                     /\ g.records[k].duration \notin {NULL, 0}
                     /\ g.records[k].duration <= criteria.shortDuration}
        samePlate == {ij \in (1..Len(g.records)) \X (1..Len(g.records)) :
                         /\ ij[1] < ij[2]
                         /\ g.records[ij[1]].matricula = g.records[ij[2]].matricula
                         /\ PeriodsOverlap(g.records[ij[1]], g.records[ij[2]])}
    IN  (IF Cardinality(g.plates) >= criteria.minPlates THEN 1 ELSE 0)
        + (IF Cardinality(short) >= 3 THEN 1 ELSE 0)
        + (IF criteria.overlappingPeriods /\ samePlate # {} THEN 1 ELSE 0)

\* C16: the list findSuspiciousMembers returned holds each group with an
\* issue once and no other group, the severity of each entry is ten times
\* its number of issues plus its number of distinct plates, at most 50, and
\* no entry is ahead of one with a larger severity
C16_Suspicious ==
    pc = "flagged" =>
        /\ \A k \in 1..Len(memberGroups) :
               Cardinality({j \in 1..Len(suspicious) :
                               suspicious[j].member = memberGroups[k].memberName})
               = IF IssueCount(memberGroups[k]) > 0 THEN 1 ELSE 0
        /\ \A j \in 1..Len(suspicious) :
               \E k \in 1..Len(memberGroups) :
                  /\ suspicious[j].member = memberGroups[k].memberName
                  /\ LET plateCount ==
                             Cardinality({suspicious[j].records[r].matricula :
                                             r \in 1..Len(suspicious[j].records)})
                     IN  suspicious[j].severity
                         = IssueCount(memberGroups[k]) * 10
                           + (IF plateCount < 50 THEN plateCount ELSE 50)
        /\ \A j \in 1..(Len(suspicious) - 1) :
               suspicious[j].severity >= suspicious[j + 1].severity

\* of three members, the one with 51 plates is flagged ahead of one with
\* overlapping permits of a plate, and the third is not flagged
C16_Witness ==
    /\ pc = "flagged"
    /\ Len(memberGroups) = 3
    /\ Len(suspicious) = 2
    /\ Len(suspicious[1].records) = 51
    /\ suspicious[1].severity = 60
    /\ suspicious[2].issues = <<"overlaps">>

\* C17: calculateSocioAnalytics of the empty subset returns average 0, no
\* short permit, no overlap, peak 0 with no plate and no date, and seasonal
\* frequency 0 for both seasons; and the analyzer of the empty record list
\* completes with no group and every total 0
C17_EmptyNeutral ==
    (pc = "computed" /\ subset = <<>>) =>
        /\ metrics.diasPromedioPermiso = 0
        /\ metrics.permisosCortos = 0
        /\ metrics.solapamientos = 0
        /\ metrics.picoSimultaneo = 0
        /\ metrics.picoDetalle.cantidad = 0
        /\ metrics.picoDetalle.matriculas = <<>>
        /\ metrics.frecuenciaEstacional = [verano |-> 0, invierno |-> 0]
        /\ ~Analyze(subset).threw
        /\ Analyze(subset).groups = <<>>
        /\ \A total \in DOMAIN Analyze(subset).stats : Analyze(subset).stats[total] = 0

C17_Witness ==
    /\ pc = "computed"
    /\ subset = <<>>
    /\ metrics.picoDetalle.fecha = NULL

\* what the loop of parseCSVText makes of line n of the current file
OutcomesOf(n) ==
    IF dialect = "header"
    THEN {ProcessLineHeader(lines[n], n, headers, columnMapping)}
    ELSE {ProcessLineHeaderless(lines[n], n, now) : now \in NowValues}

\* the permit is a record of the current file
InCurrentFile(m) ==
    /\ m.lineNumber \in DOMAIN lines
    /\ \E res \in OutcomesOf(m.lineNumber) : res.ok /\ res.record = m

\* C18: once the parse of a file has returned its records, every record of
\* the parser and every entry of its error list comes from a line of that
\* file, the groups and the statistics of the analyzer are those of its
\* records, and the lists of the table hold permits of that file only
C18_ReplacedByLastFile ==
    pc \in {"analyzed", "analysisFailed"} =>
        /\ \A k \in 1..Len(data) : InCurrentFile(data[k])
        /\ \A k \in 1..Len(errors) :
               /\ errors[k].line \in DOMAIN lines
               /\ \E res \in OutcomesOf(errors[k].line) :
                      ~res.ok /\ res.error = errors[k].error
        /\ SameMultiset(FlattenGroups(groupedData), data)
        /\ stats.totalMatriculas = Len(data)
        /\ stats.totalSocios = Len(groupedData)
        /\ \A k \in 1..Len(handed) : \A j \in 1..Len(handed[k].matriculas) :
               InCurrentFile(handed[k].matriculas[j])
        /\ \A k \in 1..Len(shown) : \A j \in 1..Len(shown[k].matriculas) :
               InCurrentFile(shown[k].matriculas[j])

\* line n of the file is made of delimiters of the dialect only
OnlyDelimiters(n) ==
    \A k \in 1..Len(lines[n]) :
        lines[n][k] = IF dialect = "header" THEN "," ELSE ";"

\* C19: every data line whose number of fields is not the header's (header
\* dialect) or is below 3 (headerless dialect) is in the error log and not
\* in data when one of its fields is not empty; and every line made of
\* delimiters only is neither in data nor in the error log
C19_FieldCountRule ==
    \A n \in FirstDataLine..Len(lines) :
        /\ (~CountOk(n) /\ \E k \in 1..Len(FieldsOf(n)) : Trim(FieldsOf(n)[k]) # <<>>)
              => InErrors(n) /\ ~InData(n)
        /\ OnlyDelimiters(n) => ~InErrors(n) /\ ~InData(n)

\* the delimiter of the dialect
Delimiter == IF dialect = "header" THEN "," ELSE ";"

\* the scan of parseLine is in its loop, at a character of the line
InLoop == pc = "scan" /\ ~scan.returned /\ scan.i <= Len(scan.line)

\* what a turn of the loop at the character under the index may do
QuoteRule ==
    LET char == scan.line[scan.i]
        doubled == char = QUOTE /\ scan.inQuotes /\ NextIsQuote(scan)
    IN  /\ (char = Delimiter /\ scan.inQuotes)
            => /\ scan'.fields = scan.fields
               /\ scan'.current = Append(scan.current, char)
        /\ doubled
            => /\ scan'.current = Append(scan.current, QUOTE)
               /\ scan'.inQuotes
               /\ scan'.i = scan.i + 2
        /\ (char = QUOTE /\ ~doubled)
            => /\ scan'.inQuotes = ~scan.inQuotes
               /\ scan'.i = scan.i + 1
               /\ scan'.current = IF dialect = "header" THEN scan.current
                                  ELSE Append(scan.current, QUOTE)
        /\ char # QUOTE
            => /\ scan'.inQuotes = scan.inQuotes
               /\ scan'.i = scan.i + 1
        /\ scan'.i <= Len(scan.line) + 1
        /\ scan'.line = scan.line
        /\ ~scan'.returned

\* C20: in both dialects, a turn of the loop of parseLine at a delimiter
\* inside quotes adds it to the field and ends no field; at a quote inside
\* quotes followed by a quote it adds one quote, keeps the flag and skips
\* both; at any other quote it toggles the flag, dropping the quote in the
\* header dialect and keeping it in the headerless one; every turn moves
\* the index forward and never past the end; and every scan returns, with
\* the index at the end of the line
C20_QuoteHandling ==
    /\ [][InLoop => QuoteRule]_vars
    /\ [](pc = "scan" => (scan.returned => scan.i = Len(scan.line) + 1))
    /\ <>(pc = "scan" => scan.returned)

\* the headerless scan of `";""` has returned one field: the opening quote,
\* the delimiter met inside quotes and one quote for the doubled one
C20_Witness ==
    /\ pc = "scan"
    /\ dialect = "headerless"
    /\ scan.returned
    /\ scan.line = <<QUOTE, ";", QUOTE, QUOTE>>
    /\ scan.fields = << <<QUOTE, ";", QUOTE>> >>

\* a returned scan holds the fields parseLine returns for the line
ScanIsParseLine ==
    (pc = "scan" /\ scan.returned)
        => scan.fields = IF dialect = "header" THEN ParseLineHeader(scan.line)
                         ELSE ParseLineHeaderless(scan.line)

\* the records of the list with the member string of m, lower-cased and
\* trimmed, in the order of the list
SameMember(records, m) ==
    SelectSeq(records,
              LAMBDA r : Trim(ToLowerCase(r.socio)) = Trim(ToLowerCase(m.socio)))

\* C21: once the analysis of the records has completed, every record is in
\* a group; the permits of a group are exactly the records whose member
\* string, lower-cased and trimmed, equals that of the group's first permit,
\* in the order of the input list; no two groups share such a key; and the
\* name of the group is the member string of the first of these records
C21_GroupingKeyAndOrder ==
    pc = "analyzed" =>
        /\ \A k \in 1..Len(data) : \E g \in 1..Len(groupedData) :
               \E p \in 1..Len(groupedData[g].matriculas) :
                   groupedData[g].matriculas[p] = data[k]
        /\ \A g \in 1..Len(groupedData) :
               /\ groupedData[g].matriculas # <<>>
               /\ groupedData[g].matriculas =
                      SameMember(data, groupedData[g].matriculas[1])
               /\ groupedData[g].socio = groupedData[g].matriculas[1].socio
        /\ \A g, h \in 1..Len(groupedData) :
               SameMember(data, groupedData[g].matriculas[1])
                   = SameMember(data, groupedData[h].matriculas[1]) => g = h

\* three records were analysed: the first and the third, whose member
\* strings differ in casing only, share a group named after the first, and
\* the second is in a group of its own
C21_Witness ==
    /\ pc = "analyzed"
    /\ Len(data) = 3
    /\ Len(groupedData) = 2
    /\ data[1].socio # data[3].socio
    /\ groupedData[1].matriculas = <<data[1], data[3]>>
    /\ groupedData[1].socio = data[1].socio
    /\ groupedData[2].matriculas = <<data[2]>>

\* the closed intervals [start, end] of two permits with a start date
\* share an instant, a missing end date standing for the far future
ClosedIntervalsIntersect(m1, m2) ==
    LET e1 == IF m1.fechaFin = NULL THEN FAR_FUTURE ELSE m1.fechaFin
        e2 == IF m2.fechaFin = NULL THEN FAR_FUTURE ELSE m2.fechaFin
    IN  /\ m1.fechaInicio # NULL
        /\ m2.fechaInicio # NULL
        /\ Max(m1.fechaInicio, m2.fechaInicio) <= Min(e1, e2)

\* C22: countOverlappingPlates of the subset is the number of unordered
\* pairs of permits with different plates, both with a start date, whose
\* closed intervals [start, end] intersect, a missing end date standing for
\* the far future; pairs that share only an endpoint are counted
C22_OverlapPairs ==
    pc = "computed" =>
        metrics.solapamientos =
            Cardinality({ij \in (1..Len(subset)) \X (1..Len(subset)) :
                /\ ij[1] < ij[2]
                /\ subset[ij[1]].matricula # subset[ij[2]].matricula
                /\ ClosedIntervalsIntersect(subset[ij[1]], subset[ij[2]])})

\* the permits of the subset that start in the summer months (verano) or
\* in the other months
StartedIn(verano) ==
    {k \in 1..Len(subset) :
        /\ subset[k].fechaInicio # NULL
        /\ (MesDe(subset[k].fechaInicio) \in 6..9) = verano}

\* C23: every month 1..12 is summer exactly when it is in 6..9; and the
\* summer (winter) value of calculateSeasonalFrequency is the number of
\* permits that start in a summer (winter) month divided by the number of
\* distinct (year, month) pairs in which one of them starts, rounded to one
\* decimal, and 0 when no permit starts in that season
C23_SeasonalFrequency ==
    /\ \A mes \in 1..12 : IsVerano(mes) <=> mes \in 6..9
    /\ pc = "computed" =>
          \A verano \in BOOLEAN :
              (IF verano THEN metrics.frecuenciaEstacional.verano
               ELSE metrics.frecuenciaEstacional.invierno)
              = IF StartedIn(verano) = {} THEN 0
                ELSE RoundTenths(
                       Cardinality(StartedIn(verano)),
                       Cardinality({MonthIndex(subset[k].fechaInicio) :
                                       k \in StartedIn(verano)}))

\* three permits start in two summer months (two in July 2024, one in August
\* 2025) and none in winter: the summer value is 1.5 and the winter value 0
C23_Witness ==
    /\ pc = "computed"
    /\ Len(subset) = 3
    /\ Cardinality({MonthIndex(subset[k].fechaInicio) : k \in StartedIn(TRUE)}) = 2
    /\ metrics.frecuenciaEstacional = [verano |-> 15, invierno |-> 0]

\* the permits of a group with both dates that last at most shortDuration
\* days, those of no length included
ShortPermitsOf(g) ==
    {k \in 1..Len(g.records) :
        /\ g.records[k].fechaInicio # NULL
        /\ g.records[k].fechaFin # NULL
        /\ CeilDiv(g.records[k].fechaFin - g.records[k].fechaInicio, Day(1))
              <= criteria.shortDuration}

\* C24: a member is in the list findSuspiciousMembers returned exactly when
\* it has at least minPlates distinct plates, or at least 3 permits with
\* both dates and a duration of at most shortDuration days (duration 0
\* included), or, the overlap check being enabled, two permits of one plate
\* whose closed intervals intersect
C24_FlaggedExactlyWhen ==
    pc = "flagged" =>
        \A k \in 1..Len(memberGroups) :
            (\E j \in 1..Len(suspicious) :
                suspicious[j].member = memberGroups[k].memberName)
            <=> LET g == memberGroups[k]
                IN  \/ Cardinality(g.plates) >= criteria.minPlates
                    \/ Cardinality(ShortPermitsOf(g)) >= 3
                    \/ /\ criteria.overlappingPeriods
                       /\ \E a, b \in 1..Len(g.records) :
                             /\ a < b
                             /\ g.records[a].matricula = g.records[b].matricula
                             /\ g.records[a].fechaInicio # NULL
                             /\ g.records[a].fechaFin # NULL
                             /\ g.records[b].fechaInicio # NULL
                             /\ g.records[b].fechaFin # NULL
                             /\ Max(g.records[a].fechaInicio, g.records[b].fechaInicio)
                                  <= Min(g.records[a].fechaFin, g.records[b].fechaFin)

\* C25: in the sweep of findPeakSimultaneous over the subset, the count of
\* active permits is not negative after any event and is 0 after the last
C25_ActiveCountInRange ==
    pc = "computed" =>
        LET trace == PeakSweep(subset).trace
        IN  /\ \A k \in 1..Len(trace) : trace[k] >= 0
            /\ trace # <<>> => trace[Len(trace)] = 0

\* C26: findPeakSimultaneous returns the same peak count for every
\* reordering of the subset
C26_PeakOrderIndependent ==
    pc = "computed" =>
        \A r \in Reorderings(subset) :
            FindPeakSimultaneous(r).count = metrics.picoSimultaneo

\* C27: when findPeakSimultaneous returns a count above 0 for the subset,
\* the plate list of the peak detail has as many entries as the count and
\* the cantidad of the detail is the count
C27_PeakDetailConsistent ==
    (pc = "computed" /\ metrics.picoSimultaneo > 0) =>
        /\ Len(metrics.picoDetalle.matriculas) = metrics.picoSimultaneo
        /\ metrics.picoDetalle.cantidad = metrics.picoSimultaneo

\* C28: when the parse has succeeded, every data line has at most one record
\* in data and at most one entry in errors and never both, and a line with
\* neither has only empty fields; the records and the error entries belong
\* to data lines of the file; the records and the errors together are no
\* more than the data lines (totalLines); and the line numbers of the
\* records increase along data
C28_LineAccounting ==
    ParseReturned =>
        /\ \A n \in FirstDataLine..Len(lines) :
               /\ Cardinality({k \in 1..Len(data) : data[k].lineNumber = n})
                  + Cardinality({k \in 1..Len(errors) : errors[k].line = n}) <= 1
               /\ (~InData(n) /\ ~InErrors(n))
                     => \A k \in 1..Len(FieldsOf(n)) : Trim(FieldsOf(n)[k]) = <<>>
        /\ \A k \in 1..Len(data) : data[k].lineNumber \in FirstDataLine..Len(lines)
        /\ \A k \in 1..Len(errors) : errors[k].line \in FirstDataLine..Len(lines)
        /\ Len(data) + Len(errors) <= DataLineCount
        /\ \A k \in 1..(Len(data) - 1) : data[k].lineNumber < data[k + 1].lineNumber

\* a parse of three data lines has returned one record, one error entry and
\* dropped one line
C28_Witness ==
    /\ pc = "parsed"
    /\ DataLineCount = 3
    /\ Len(data) = 1
    /\ Len(errors) = 1
    /\ data[1].lineNumber > errors[1].line

\* C29: a step of handleFileSelection that ends with the file rejected or
\* with a fatal parse error leaves the groups and the statistics of the
\* analyzer, currentData, and the list handed to the table and the list
\* the table shows as they were
C29_FailedIngestionFrame ==
    [][pc' \in {"fatal", "rejected"}
          => UNCHANGED <<groupedData, stats, currentData, handed, shown>>]_vars

\* a file has ended in a fatal parse error: the parser holds no record and
\* the page still holds the groups and the table of an earlier file
C29_Witness ==
    /\ pc = "fatal"
    /\ data = <<>>
    /\ groupedData # <<>>
    /\ stats.totalMatriculas > 0
    /\ shown # <<>>

\* C30: the page of the table is at least 1 and at most the number of
\* pages of the list, or 1 when the list is empty, and a page holds at
\* least one row
C30_PageInRange ==
    /\ itemsPerPage >= 1
    /\ currentPage >= 1
    /\ currentPage <= Max(1, CeilDiv(Len(shown), Max(1, itemsPerPage)))

====
